---------------------------- MODULE Spec2Model ----------------------------
(***************************************************************************)
(* A model of the BAM "sniper engine" ingestion pipeline:                  *)
(*   - _post_with_retry          (sniper_engine.py)   SpecRetry            *)
(*   - _compute_plan_pages,                                                *)
(*     build_page_plan           (bam_snapshot.py)    SpecPlan             *)
(*   - save_to_cloud             (sniper_engine.py)   SpecSave             *)
(*   - PageWindow, scrape_bam,                                             *)
(*     fetch_regular_assets,                                               *)
(*     fetch_auction_assets      (sniper_engine.py)   SpecScrape           *)
(*   - normalize_regular_item,                                             *)
(*     normalize_auction_item    (sniper_engine.py)   SpecNorm             *)
(*   - main, persist_snapshots,                                            *)
(*     fetch_latest_snapshot_map (bam_snapshot.py)    SpecSnap             *)
(*   - load_progress_state       (sniper_engine.py)   SpecLoad             *)
(*   - save_to_cloud(scrape_bam())                                         *)
(*     on one category           (sniper_engine.py)   SpecPipe             *)
(* Each specification moves the variables of its own component and leaves  *)
(* the other components in their initial state.                            *)
(***************************************************************************)
EXTENDS Integers, Sequences, FiniteSets, TLC

VARIABLES
    \* ---- _post_with_retry ------------------------------------------------
    rPc,          \* "call" (in the while loop), "returned", "raised"
    attempt,      \* the local `attempt`
    rRequests,    \* outcomes of the session.post calls issued so far, in order
    rSleeps,      \* the delays passed to time.sleep so far, in order
    \* ---- _compute_plan_pages / build_page_plan ---------------------------
    pPc,          \* "input", "computed", "built"
    HEAD_REFRESH_PAGES,   \* configuration, max(0, env)
    TAIL_RECHECK_PAGES,   \* configuration, max(0, env)
    snap,         \* the current FeedSnapshot: [feed_type, category, page_count]
    previous,     \* the previous FeedSnapshot's page_count, or NoSnapshot
    planPages,    \* the list returned by _compute_plan_pages
    plan,         \* the plan built by build_page_plan: [regular, auction]
    \* ---- save_to_cloud ---------------------------------------------------
    sPc,          \* "idle", "loop" (for item in listings), "confirm"
                  \* (in wait_for_user_confirmation), "done", "failed"
    store,        \* the committed rows of table properties, in insertion order
    txn,          \* the rows as the connection's open transaction sees them
    runs,         \* save_to_cloud runs started so far
    feedMode,     \* "fresh": any listings; "replay": the last run's sequence
    prevListings, \* the sequence the last run consumed to its end, else << >>
    storeAtStart, \* the committed rows when the current run connected
    consumed,     \* the listings pulled from `listings` in this run, in order
    firstRow,     \* url -> the row as this run's first upsert of the url left it
    dbExecutes,   \* INSERT ... ON CONFLICT statements executed in this run
    seen_urls,
    duplicates_skipped,
    processed_count,
    new_total,
    batch_inserted,
    batch_number,
    aborted,
    \* ---- scrape_bam, fetch_regular_assets, fetch_auction_assets ----------
    gPc,          \* where the generator stands: "idle" (not started), "plan"
                  \* (top of `for page_number in planned`), "cursor" (top of
                  \* `while True`), "yield" (suspended in `for item in rows`),
                  \* "finished" (exhausted), "abandoned" (never resumed)
    gRuns,        \* scrape_bam runs started so far
    PAGES_PER_RUN,       \* configuration
    requestCap,          \* the number of feed requests the model follows
    SKIP_FAILED_PAGES,   \* configuration
    progressFile, \* the progress file: feed -> last completed page
    planFile,     \* the plan file: NoPlan, or feed -> raw page list
    progress_state,      \* the dict scrape_bam loaded: feed -> page
    target,       \* PageWindow.target (NoTarget: None)
    processed,    \* PageWindow.processed
    gPlan,        \* the plan scrape_bam loaded
    feed,         \* the category being fetched: 1..NumCat, or Auction
    gMode,        \* "plan" or "cursor", for the category being fetched
    plannedRest,  \* the pages of `planned` the for loop has not reached yet
    page_number,
    consecutive_failures,
    yieldLeft,    \* rows of the fetched page not yet yielded
    rowsLen,      \* len(rows) of the fetched page
    total_data,   \* result.get("totalData") of the fetched page (0: none)
    totalRequests, \* _post_with_retry calls of all runs
    lastRequest,  \* the last call's [feed, page], or NoRequest
    lastOutcome,  \* how the last call ended: "none", "rows", "empty", "failed"
    requested,    \* the [feed, page] pairs requested in this run
    skipped,      \* the [feed, page] pairs skipped after a failed fetch, in
                  \* any run
    lateRequest,  \* a call was issued while the window was exhausted
    markCount,    \* mark_complete() calls of this run
    \* ---- normalize_regular_item, normalize_auction_item -------------------
    nPc,          \* "idle", "input" (a raw record is at hand), "done"
    nVariant,     \* "regular" or "auction"
    rawItem,      \* the raw record `item`: its price, size and map fields
    listing,      \* what the call produced: the listing's price, size, lat
                  \* and lon, or `raised`
    \* ---- bam_snapshot.main ------------------------------------------------
    tPc,          \* "idle", "collect" (in collect_current_metadata),
                  \* "persisted", "done", "failed"
    snapRuns,     \* runs of the snapshot tool started so far
    snapTable,    \* the rows of bam_feed_snapshot, in insertion order
    snapNow,      \* the database clock at the last insert
    rowsAtRead,   \* the number of rows when fetch_latest_snapshot_map ran
    previous_map, \* feed -> the row fetch_latest_snapshot_map returned for it
                  \* (its index in snapTable), 0 for none
    current_snapshots,   \* the list collect_current_metadata is building
    snapPlanFile, \* the plan file the tool wrote: feed -> pages, or absent
    \* ---- load_progress_state ----------------------------------------------
    lPc,          \* "idle", "loaded"
    progressContent,  \* what PROGRESS_FILE holds when the call is made
    loaded,       \* what the call produced
    \* ---- save_to_cloud(scrape_bam()) on one category, cursor mode ---------
    kPc,          \* "fetch" (the generator is about to request kPage), "yield"
                  \* (inside `for item in rows`), "confirm", "exhausted",
                  \* "done", "crashed"
    kRuns,        \* runs started so far
    kPage,        \* page_number
    kRows,        \* len(rows) of the page being yielded
    kLeft,        \* rows of the page not yet yielded
    kFailures,    \* consecutive_failures
    kProgress,    \* the category's page in the progress file
    kCompleted,   \* page -> the number of listings it had when the progress
                  \* file recorded it after its last yield, 0 if it never did
    kTxn,         \* listings in the connection's view (committed or not)
    kStore,       \* listings committed
    kBatch,       \* batch_inserted
    \* ---- PageWindow -------------------------------------------------------
    wPc,          \* "new" (before __init__), "ready", "probed", "marked"
    wArg,         \* the `target` argument of PageWindow(target)
    wTarget,      \* self.target (NoTarget for None)
    wProcessed,   \* self.processed
    wBefore,      \* self.processed before the last mark_complete()
    wAllowed,     \* what the last allow_next() returned
    wExhausted,   \* what the last exhausted() returned
    \* ---- calculate_rating ------------------------------------------------
    cPc,          \* "call", "returned"
    ratedPrice,   \* the argument `price`
    ratedSize,    \* the argument `size`
    metrics,      \* the dictionary the call returned
    \* ---- one category: a plan run, then a cursor run --------------------
    uPc,          \* "plan" (in the plan loop), "between" (the plan run is
                  \* over), "started" (a cursor run set page_number)
    uCursor,      \* regular_progress[label], as saved in the progress file
    uBefore,      \* the cursor when the plan run began
    uPlanned,     \* the planned pages not yet requested
    uHighest,     \* the highest planned page completed, 0 for none
    uStart        \* page_number at the start of the cursor run

retryVars == <<rPc, attempt, rRequests, rSleeps>>
planVars  == <<pPc, HEAD_REFRESH_PAGES, TAIL_RECHECK_PAGES, snap, previous, planPages, plan>>
saveVars  == <<sPc, store, txn, runs, feedMode, prevListings, storeAtStart, consumed,
               firstRow, dbExecutes, seen_urls, duplicates_skipped, processed_count,
               new_total, batch_inserted, batch_number, aborted>>
scrapeVars == <<gPc, gRuns, PAGES_PER_RUN, requestCap, SKIP_FAILED_PAGES, progressFile, planFile,
                 progress_state, target, processed, gPlan, feed, gMode, plannedRest,
                 page_number, consecutive_failures, yieldLeft, rowsLen, total_data,
                 totalRequests, lastRequest, lastOutcome, requested, skipped, lateRequest,
                 markCount>>
normVars  == <<nPc, nVariant, rawItem, listing>>
snapVars  == <<tPc, snapRuns, snapTable, snapNow, rowsAtRead, previous_map,
               current_snapshots, snapPlanFile>>
loadVars  == <<lPc, progressContent, loaded>>
pipeVars  == <<kPc, kRuns, kPage, kRows, kLeft, kFailures, kProgress, kCompleted,
               kTxn, kStore, kBatch>>
windowVars == <<wPc, wArg, wTarget, wProcessed, wBefore, wAllowed, wExhausted>>
ratingVars == <<cPc, ratedPrice, ratedSize, metrics>>
resumeVars == <<uPc, uCursor, uBefore, uPlanned, uHighest, uStart>>
vars      == <<retryVars, planVars, saveVars, scrapeVars, normVars, snapVars, loadVars,
               pipeVars, windowVars, ratingVars, resumeVars>>

Max(a, b) == IF a >= b THEN a ELSE b
Min(a, b) == IF a <= b THEN a ELSE b

(***************************************************************************)
(*                          _post_with_retry                               *)
(***************************************************************************)
MAX_RETRIES == 5
RETRY_BACKOFF == 2
RETRYABLE_STATUS_CODES == {500, 502, 503, 504}

\* `None`, as the value of status_code
NoStatus == 0

\* What one session.post + raise_for_status can produce: a response with a
\* status (raise_for_status raises HTTPError for 4xx and 5xx), or a
\* ConnectionError / Timeout raised by the transport.
HttpStatuses == {200, 404, 500, 502, 503, 504}
NetworkErrors == {"ConnectionError", "Timeout"}
Outcomes ==
    [kind : {"http"}, status : HttpStatuses]
        \cup [kind : NetworkErrors, status : {NoStatus}]

Http(status) == [kind |-> "http", status |-> status]

\* raise_for_status: no exception below 400
RaisesHttpError(status) == status >= 400

\* `exc.response` used as a condition: requests.Response.__bool__ is
\* Response.ok, which is False for every response raise_for_status rejects.
ResponseTruthy(status) == ~RaisesHttpError(status)

\* status_code = exc.response.status_code if exc.response else None
StatusCodeOf(status) == IF ResponseTruthy(status) THEN status ELSE NoStatus

\* retryable = status_code in RETRYABLE_STATUS_CODES if status_code else True
Retryable(status_code) ==
    IF status_code # NoStatus THEN status_code \in RETRYABLE_STATUS_CODES ELSE TRUE

MayRetryOffByOne(a) == a <= MAX_RETRIES

\* attempt < MAX_RETRIES
MayRetry(a) == a < MAX_RETRIES

BackoffDelayNoExponent(a) == RETRY_BACKOFF * (a - 1)

\* delay = RETRY_BACKOFF ** (attempt - 1)
BackoffDelay(a) == RETRY_BACKOFF ^ (a - 1)

RetryInit ==
    /\ rPc = "call"
    /\ attempt = 1
    /\ rRequests = <<>>
    /\ rSleeps = <<>>

\* sleep, attempt += 1, continue
SleepAndRetry ==
    /\ rSleeps' = Append(rSleeps, BackoffDelay(attempt))
    /\ attempt' = attempt + 1
    /\ rPc' = "call"

\* the `raise` at the end of either except clause
GiveUp ==
    /\ rPc' = "raised"
    /\ UNCHANGED <<attempt, rSleeps>>

\* session.post answers with a status raise_for_status accepts: return resp
PostReturns(status) ==
    /\ rPc = "call"
    /\ ~RaisesHttpError(status)
    /\ rRequests' = Append(rRequests, Http(status))
    /\ rPc' = "returned"
    /\ UNCHANGED <<attempt, rSleeps>>

\* except requests.HTTPError
PostHttpError(status) ==
    /\ rPc = "call"
    /\ RaisesHttpError(status)
    /\ rRequests' = Append(rRequests, Http(status))
    /\ IF Retryable(StatusCodeOf(status)) /\ MayRetry(attempt)
         THEN SleepAndRetry
         ELSE GiveUp

\* except (requests.ConnectionError, requests.Timeout)
PostNetworkError(kind) ==
    /\ rPc = "call"
    /\ rRequests' = Append(rRequests, [kind |-> kind, status |-> NoStatus])
    /\ IF MayRetry(attempt)
         THEN SleepAndRetry
         ELSE GiveUp

(***************************************************************************)
(*                 _compute_plan_pages, build_page_plan                    *)
(***************************************************************************)
\* bounds of the inputs
MaxPages == 10
MaxHead == 2
MaxTail == 3

\* `previous` is None
NoSnapshot == -1

RegularLabels == {"General Feed", "Single Houses"}

\* range(start, end + 1), as a sequence
_range_set(start, end) ==
    IF end < start THEN <<>> ELSE [i \in 1..(end - start + 1) |-> start + i - 1]

InSeq(x, s) == \E i \in 1..Len(s) : s[i] = x

AppendAlways(keys, page) == Append(keys, page)

\* pages.setdefault(page, None): the keys of the dict, in insertion order
SetDefault(keys, page) == IF InSeq(page, keys) THEN keys ELSE Append(keys, page)

RECURSIVE SetDefaultAll(_, _)
\* for page in _range_set(...): pages.setdefault(page, None)
SetDefaultAll(keys, range) ==
    IF range = <<>> THEN keys
    ELSE SetDefaultAll(SetDefault(keys, Head(range)), Tail(range))

RECURSIVE InsertSorted(_, _)
InsertSorted(x, s) ==
    IF s = <<>> THEN <<x>>
    ELSE IF x <= Head(s) THEN <<x>> \o s
    ELSE <<Head(s)>> \o InsertSorted(x, Tail(s))

RECURSIVE sorted(_)
\* sorted(...) of a list of integers (repeats are kept)
sorted(s) == IF s = <<>> THEN <<>> ELSE InsertSorted(Head(s), sorted(Tail(s)))

\* head_limit = min(current_pages, HEAD_REFRESH_PAGES) and its loop
HeadPages(keys, current_pages, head) ==
    LET head_limit == Min(current_pages, head)
    IN  IF head_limit > 0 THEN SetDefaultAll(keys, _range_set(1, head_limit)) ELSE keys

TailStartOffByOne(current_pages, tail_limit) == Max(1, current_pages - tail_limit)

\* tail_start = max(1, current_pages - tail_limit + 1)
TailStart(current_pages, tail_limit) == Max(1, current_pages - tail_limit + 1)

\* tail_limit = min(current_pages, TAIL_RECHECK_PAGES) and its loop
TailPages(keys, current_pages, tail) ==
    LET tail_limit == Min(current_pages, tail)
    IN  IF tail_limit > 0
          THEN SetDefaultAll(keys, _range_set(TailStart(current_pages, tail_limit), current_pages))
          ELSE keys

GrowthStartOffByOne(prev_pages) == prev_pages + 2

\* start = prev_pages + 1
GrowthStart(prev_pages) == prev_pages + 1

ShrinkTailSingle(current_pages, tail) == Min(current_pages, tail)

\* shrink_tail = min(current_pages, TAIL_RECHECK_PAGES * 2)
ShrinkTail(current_pages, tail) == Min(current_pages, tail * 2)

\* the `if previous:` block (a FeedSnapshot object is always truthy)
DeltaPages(keys, current_pages, prev, tail) ==
    IF prev = NoSnapshot THEN keys
    ELSE LET prev_pages == Max(0, prev)
         IN  IF current_pages > prev_pages
               THEN LET start == GrowthStart(prev_pages)
                    IN  IF start <= current_pages
                          THEN SetDefaultAll(keys, _range_set(start, current_pages))
                          ELSE keys
             ELSE IF prev_pages > current_pages
               THEN LET shrink_tail == ShrinkTail(current_pages, tail)
                        shrink_start == Max(1, current_pages - shrink_tail + 1)
                    IN  IF shrink_tail > 0 /\ shrink_start <= current_pages
                          THEN SetDefaultAll(keys, _range_set(shrink_start, current_pages))
                          ELSE keys
             ELSE keys

_compute_plan_pages(page_count, prev, head, tail) ==
    LET current_pages == Max(0, page_count)
    IN  IF current_pages <= 0 THEN <<>>
        ELSE sorted(DeltaPages(TailPages(HeadPages(<<>>, current_pages, head),
                                         current_pages, tail),
                               current_pages, prev, tail))

EmptyPlan == [regular |-> <<>>, auction |-> <<>>]

\* The plan's "regular" entry is a dict label -> pages; it is kept here as
\* the sequence of its (label, pages) items.
RegularPlanLabels(p) == {p.regular[i].label : i \in 1..Len(p.regular)}

KeepEmptyCategory(s, pages) ==
    IF s.feed_type = "regular"
      THEN [EmptyPlan EXCEPT !.regular = <<[label |-> s.category, pages |-> pages]>>]
      ELSE [EmptyPlan EXCEPT !.auction = pages]

\* build_page_plan for current = [s]: `if not pages: continue`, else the
\* pages go under the category's label or become the auction list.
build_page_plan(s, pages) ==
    IF pages = <<>> THEN EmptyPlan
    ELSE IF s.feed_type = "regular"
      THEN [EmptyPlan EXCEPT !.regular = <<[label |-> s.category, pages |-> pages]>>]
      ELSE [EmptyPlan EXCEPT !.auction = pages]

Snapshots ==
    [feed_type : {"regular"}, category : RegularLabels, page_count : 0..MaxPages]
        \cup [feed_type : {"auction"}, category : {"Auction"}, page_count : 0..MaxPages]

PlanInit ==
    /\ pPc = "input"
    /\ HEAD_REFRESH_PAGES \in 0..MaxHead
    /\ TAIL_RECHECK_PAGES \in 0..MaxTail
    /\ snap \in Snapshots
    /\ previous \in {NoSnapshot} \cup 0..MaxPages
    /\ planPages = <<>>
    /\ plan = EmptyPlan

PlanIdle ==
    /\ pPc = "idle"
    /\ HEAD_REFRESH_PAGES = 0
    /\ TAIL_RECHECK_PAGES = 0
    /\ snap = [feed_type |-> "regular", category |-> "General Feed", page_count |-> 0]
    /\ previous = NoSnapshot
    /\ planPages = <<>>
    /\ plan = EmptyPlan

\* pages = _compute_plan_pages(snap, prev)
ComputePlanPages ==
    /\ pPc = "input"
    /\ planPages' = _compute_plan_pages(snap.page_count, previous,
                                        HEAD_REFRESH_PAGES, TAIL_RECHECK_PAGES)
    /\ pPc' = "computed"
    /\ UNCHANGED <<HEAD_REFRESH_PAGES, TAIL_RECHECK_PAGES, snap, previous, plan>>

\* the rest of build_page_plan's loop body and its return
BuildPagePlan ==
    /\ pPc = "computed"
    /\ plan' = build_page_plan(snap, planPages)
    /\ pPc' = "built"
    /\ UNCHANGED <<HEAD_REFRESH_PAGES, TAIL_RECHECK_PAGES, snap, previous, planPages>>

RetryIdle ==
    /\ rPc = "idle"
    /\ attempt = 1
    /\ rRequests = <<>>
    /\ rSleeps = <<>>

(***************************************************************************)
(*                             save_to_cloud                               *)
(***************************************************************************)
\* BAM_BATCH_SIZE as set for the modelled runs (the default is 1000)
BATCH_SIZE == 2
PAUSE_BETWEEN_BATCHES == TRUE
AUTO_CONTINUE == FALSE

\* bounds of the runs
MaxRuns == 2
MaxListings == 3
MaxPayload == 2

Urls == {"u1", "u2"}
\* item.get('url') is None or ''
NoUrl == ""
NoRow == [url |-> NoUrl, price |-> 0, size_sqm |-> 0]

\* A listing: its url and its values.  `price` stands for the values bound to
\* the columns of the DO UPDATE SET list (price, title, description, photos,
\* property_type, sale_channel, location, contact, bank, the ratings, rooms,
\* bedrooms, bathrooms), `size` for the values bound to the columns the
\* statement only inserts (source, size_sqm, lat, lon).
Listings ==
    {[url |-> u, price |-> v, size |-> v] : u \in Urls, v \in 1..MaxPayload}
        \cup {[url |-> NoUrl, price |-> 1, size |-> 1]}

HasUrl(rows, url) == \E i \in 1..Len(rows) : rows[i].url = url

RowOf(rows, url) ==
    IF HasUrl(rows, url)
      THEN rows[CHOOSE i \in 1..Len(rows) : rows[i].url = url]
      ELSE NoRow

InsertedAlways(rows, item) == TRUE

\* RETURNING (xmax = 0) AS inserted: true for a fresh row, false for a row
\* the conflict clause updated
Inserted(rows, item) == ~HasUrl(rows, item.url)

InsertRow(rows, item) ==
    Append(rows, [url |-> item.url, price |-> item.price, size_sqm |-> item.size])

UpsertWithoutConflictClause(rows, item) ==
    Append(rows, [url |-> item.url, price |-> item.price, size_sqm |-> item.size])

\* INSERT INTO properties (...) VALUES (...) ON CONFLICT (url) DO UPDATE SET
\* price = EXCLUDED.price, ... : the row with the url is updated in the
\* columns of the SET list, or a new row is added.
Upsert(rows, item) ==
    IF HasUrl(rows, item.url)
      THEN [i \in 1..Len(rows) |->
              IF rows[i].url = item.url
                THEN [rows[i] EXCEPT !.price = item.price]
                ELSE rows[i]]
      ELSE InsertRow(rows, item)

IsDuplicateNever(url, seen) == FALSE

\* if url in seen_urls
IsDuplicate(url, seen) == url \in seen

\* wait_for_user_confirmation: the prompt is skipped without the pause or
\* with auto-continue; otherwise the operator's answer decides
wait_for_user_confirmation(answersQuit) ==
    IF ~PAUSE_BETWEEN_BATCHES \/ AUTO_CONTINUE THEN TRUE ELSE ~answersQuit

CommitNothing(committed, open) == committed

\* conn.commit(): the rows of the open transaction become the committed rows
Commit(committed, open) == open

\* BATCH_SIZE > 0 and batch_inserted >= BATCH_SIZE
BatchFull(n) == BATCH_SIZE > 0 /\ n >= BATCH_SIZE

SaveIdle ==
    /\ sPc = "idle"
    /\ store = <<>>
    /\ txn = <<>>
    /\ runs = 0
    /\ feedMode = "fresh"
    /\ prevListings = <<>>
    /\ storeAtStart = <<>>
    /\ consumed = <<>>
    /\ firstRow = [u \in Urls |-> NoRow]
    /\ dbExecutes = 0
    /\ seen_urls = {}
    /\ duplicates_skipped = 0
    /\ processed_count = 0
    /\ new_total = 0
    /\ batch_inserted = 0
    /\ batch_number = 1
    /\ aborted = FALSE

\* the table is empty before the first run
SaveInit == SaveIdle

\* conn = get_db_connection() ... aborted = False, for a new process
StartRun(mode) ==
    /\ sPc \in {"idle", "done", "failed"}
    /\ runs < MaxRuns
    /\ mode = "replay" => prevListings # <<>>
    /\ runs' = runs + 1
    /\ feedMode' = mode
    /\ prevListings' = IF mode = "replay" THEN prevListings ELSE <<>>
    /\ txn' = store
    /\ storeAtStart' = store
    /\ consumed' = <<>>
    /\ firstRow' = [u \in Urls |-> NoRow]
    /\ dbExecutes' = 0
    /\ seen_urls' = {}
    /\ duplicates_skipped' = 0
    /\ processed_count' = 0
    /\ new_total' = 0
    /\ batch_inserted' = 0
    /\ batch_number' = 1
    /\ aborted' = FALSE
    /\ sPc' = "loop"
    /\ UNCHANGED store

\* `listings` can yield item next
CanPull(item) ==
    /\ sPc = "loop"
    /\ IF feedMode = "replay"
         THEN /\ Len(consumed) < Len(prevListings)
              /\ item = prevListings[Len(consumed) + 1]
         ELSE Len(consumed) < MaxListings

\* `listings` is exhausted
Exhausted ==
    /\ sPc = "loop"
    /\ feedMode = "replay" => Len(consumed) = Len(prevListings)

\* if not url: continue
SkipNoUrl(item) ==
    /\ CanPull(item)
    /\ item.url = NoUrl
    /\ consumed' = Append(consumed, item)
    /\ UNCHANGED <<sPc, store, txn, runs, feedMode, prevListings, storeAtStart,
                   firstRow, dbExecutes, seen_urls, duplicates_skipped,
                   processed_count, new_total, batch_inserted, batch_number, aborted>>

\* if url in seen_urls: duplicates_skipped += 1; continue
SkipDuplicate(item) ==
    /\ CanPull(item)
    /\ item.url # NoUrl
    /\ IsDuplicate(item.url, seen_urls)
    /\ consumed' = Append(consumed, item)
    /\ duplicates_skipped' = duplicates_skipped + 1
    /\ UNCHANGED <<sPc, store, txn, runs, feedMode, prevListings, storeAtStart,
                   firstRow, dbExecutes, seen_urls, processed_count, new_total,
                   batch_inserted, batch_number, aborted>>

\* seen_urls.add(url) ... cur.execute(...) ... the counters
ExecuteCounters(item) ==
    /\ CanPull(item)
    /\ item.url # NoUrl
    /\ ~IsDuplicate(item.url, seen_urls)
    /\ consumed' = Append(consumed, item)
    /\ seen_urls' = seen_urls \cup {item.url}
    /\ dbExecutes' = dbExecutes + 1
    /\ firstRow' = IF firstRow[item.url] = NoRow
                     THEN [firstRow EXCEPT
                             ![item.url] = RowOf(Upsert(txn, item), item.url)]
                     ELSE firstRow
    /\ processed_count' = processed_count + 1
    /\ new_total' = IF Inserted(txn, item) THEN new_total + 1 ELSE new_total
    /\ batch_inserted' = IF Inserted(txn, item) THEN batch_inserted + 1 ELSE batch_inserted

\* the statement's rows join the connection's open transaction
ExecuteUpsert(item) ==
    /\ ExecuteCounters(item)
    /\ txn' = Upsert(txn, item)

RollbackKeepsOpen(committed, open) == open

\* the exception is not caught: the process ends, its connection is dropped
\* and the server discards the transaction that was open
Rollback(committed, open) == committed

\* one iteration that upserts; a full batch is committed and the operator
\* is asked
UpsertListing(item) ==
    /\ ExecuteUpsert(item)
    /\ IF BatchFull(batch_inserted')
         THEN /\ store' = Commit(store, txn')
              /\ sPc' = "confirm"
         ELSE /\ store' = store
              /\ sPc' = "loop"
    /\ UNCHANGED <<runs, feedMode, prevListings, storeAtStart, duplicates_skipped,
                   batch_number, aborted>>

\* the process ends with an exception: the connection is dropped and the
\* open transaction with it
RunFails ==
    /\ sPc' = "failed"
    /\ txn' = Rollback(store, txn)
    /\ prevListings' = <<>>
    /\ UNCHANGED <<store, runs, feedMode, storeAtStart, firstRow, dbExecutes,
                   duplicates_skipped, processed_count, new_total, batch_inserted,
                   batch_number, aborted>>

\* cur.execute raises
ExecuteFails(item) ==
    /\ CanPull(item)
    /\ item.url # NoUrl
    /\ ~IsDuplicate(item.url, seen_urls)
    /\ consumed' = Append(consumed, item)
    /\ seen_urls' = seen_urls \cup {item.url}
    /\ RunFails

\* the batch's conn.commit() raises
BatchCommitFails(item) ==
    /\ ExecuteCounters(item)
    /\ BatchFull(batch_inserted')
    /\ txn' = Rollback(store, Upsert(txn, item))
    /\ sPc' = "failed"
    /\ UNCHANGED <<store, runs, feedMode, storeAtStart, duplicates_skipped,
                   batch_number, aborted>>
    /\ prevListings' = <<>>

\* the last conn.commit(); conn.close(); the summary
FinalCommit ==
    /\ store' = Commit(store, txn)
    /\ sPc' = "done"
    /\ UNCHANGED <<txn, runs, feedMode, storeAtStart, consumed, firstRow, dbExecutes,
                   seen_urls, duplicates_skipped, processed_count, new_total,
                   batch_inserted, batch_number>>

\* wait_for_user_confirmation returns True: batch_number += 1; batch_inserted = 0
OperatorContinues ==
    /\ sPc = "confirm"
    /\ wait_for_user_confirmation(FALSE)
    /\ batch_number' = batch_number + 1
    /\ batch_inserted' = 0
    /\ sPc' = "loop"
    /\ UNCHANGED <<store, txn, runs, feedMode, prevListings, storeAtStart, consumed,
                   firstRow, dbExecutes, seen_urls, duplicates_skipped,
                   processed_count, new_total, aborted>>

\* wait_for_user_confirmation returns False: aborted = True; break
OperatorAborts ==
    /\ sPc = "confirm"
    /\ ~wait_for_user_confirmation(TRUE)
    /\ aborted' = TRUE
    /\ prevListings' = <<>>
    /\ FinalCommit

\* the for loop ends with the sequence
EndOfListings ==
    /\ Exhausted
    /\ aborted' = aborted
    /\ prevListings' = consumed
    /\ FinalCommit

\* the last conn.commit() raises
FinalCommitFails ==
    /\ Exhausted
    /\ consumed' = consumed
    /\ seen_urls' = seen_urls
    /\ RunFails

(***************************************************************************)
(*     PageWindow, scrape_bam, fetch_regular_assets, fetch_auction_assets  *)
(***************************************************************************)
\* BAM_PAGE_SIZE as set for the modelled runs (the default is 12)
PAGE_SIZE == 2
MAX_SKIP_CHAIN == 3
ONE_PAGE_ONLY == FALSE

\* bounds
MaxRequests == 6
MaxWindow == 2
MaxFeedPage == 2
MaxScrapeRuns == 2

\* the labels of the first two CATEGORY_CONFIGS entries
CATEGORY_CONFIGS == <<"General Feed", "Single Houses">>
NumCat == Len(CATEGORY_CONFIGS)

\* the regular categories, in CATEGORY_CONFIGS order, then the auction feed
Categories == 1..NumCat
Auction == NumCat + 1
Feeds == 1..Auction

\* PageWindow.target is None
NoTarget == 0
NoRequest == [feed |-> 0, page |-> 0]

\* load_page_plan() returned None
NoPlan == [present |-> FALSE, pages |-> [f \in Feeds |-> <<>>]]
\* raw page lists a plan file may hold for a category
RawPageLists == {<<>>, <<2, 0, 1, 2>>}
PlanFiles ==
    {NoPlan} \cup {[present |-> TRUE, pages |-> pp] : pp \in [Feeds -> RawPageLists]}

\* values of totalData: none (0), or the size of a feed of 1..MaxFeedPage full pages
TotalDatas == {0} \cup {PAGE_SIZE * k : k \in 1..MaxFeedPage}

ZeroProgress == [f \in Feeds |-> 0]

\* PageWindow.__init__: target if target and target > 0 else None
PageWindowTargetKeepsNegative(t) == IF t # 0 THEN t ELSE NoTarget

PageWindowTarget(t) == IF t > 0 THEN t ELSE NoTarget

AllowNextOffByOne(t, n) == IF t = NoTarget THEN TRUE ELSE n <= t

\* PageWindow.allow_next
allow_next(t, n) == IF t = NoTarget THEN TRUE ELSE n < t

\* PageWindow.mark_complete
mark_complete(t, n) == IF t = NoTarget THEN n ELSE n + 1

\* PageWindow.exhausted
exhausted(t, n) == t # NoTarget /\ n >= t

\* _coerce_page_value, for an integer value
_coerce_page_value(value) == Max(0, value)

RECURSIVE Buffered(_)
\* buffered: the coerced values of the raw list that are > 0
Buffered(raw) ==
    IF raw = <<>> THEN <<>>
    ELSE LET page == _coerce_page_value(Head(raw))
         IN  IF page > 0 THEN <<page>> \o Buffered(Tail(raw)) ELSE Buffered(Tail(raw))

RECURSIVE SetOf(_)
\* set(buffered), kept as a list without repeats
SetOf(s) == IF s = <<>> THEN <<>> ELSE SetDefault(SetOf(Tail(s)), Head(s))

PlannedUnsorted(pl, f) == IF pl.present THEN Buffered(pl.pages[f]) ELSE <<>>

\* planned = sorted(set(buffered)) when the plan names pages for the feed
Planned(pl, f) ==
    IF pl.present THEN sorted(SetOf(Buffered(pl.pages[f]))) ELSE <<>>

\* load_progress_state on a file this program wrote
load_progress_state(file) == [f \in Feeds |-> _coerce_page_value(file[f])]

ScrapeIdle ==
    /\ gPc = "idle"
    /\ gRuns = 0
    /\ PAGES_PER_RUN = 0
    /\ requestCap = 0
    /\ SKIP_FAILED_PAGES = TRUE
    /\ progressFile = ZeroProgress
    /\ planFile = NoPlan
    /\ progress_state = ZeroProgress
    /\ target = NoTarget
    /\ processed = 0
    /\ gPlan = NoPlan
    /\ feed = 1
    /\ gMode = "cursor"
    /\ plannedRest = <<>>
    /\ page_number = 0
    /\ consecutive_failures = 0
    /\ yieldLeft = 0
    /\ rowsLen = 0
    /\ total_data = 0
    /\ lastRequest = NoRequest
    /\ lastOutcome = "none"
    /\ requested = {}
    /\ skipped = {}
    /\ totalRequests = 0
    /\ lateRequest = FALSE
    /\ markCount = 0

\* no progress file yet; any configuration; any plan file
\* the requests one run can issue at most: in every feed the pages that may
\* have rows and one more chain of failures than a cursor scan survives
RunRequests == Auction * (MaxFeedPage + MAX_SKIP_CHAIN + 1)

ScrapeInitWith(cap) ==
    /\ gPc = "idle"
    /\ gRuns = 0
    /\ PAGES_PER_RUN \in 0..MaxWindow
    /\ requestCap = cap
    /\ SKIP_FAILED_PAGES \in BOOLEAN
    /\ progressFile = ZeroProgress
    /\ planFile \in PlanFiles
    /\ progress_state = ZeroProgress
    /\ target = NoTarget
    /\ processed = 0
    /\ gPlan = NoPlan
    /\ feed = 1
    /\ gMode = "cursor"
    /\ plannedRest = <<>>
    /\ page_number = 0
    /\ consecutive_failures = 0
    /\ yieldLeft = 0
    /\ rowsLen = 0
    /\ total_data = 0
    /\ lastRequest = NoRequest
    /\ lastOutcome = "none"
    /\ requested = {}
    /\ skipped = {}
    /\ totalRequests = 0
    /\ lateRequest = FALSE
    /\ markCount = 0

ScrapeInit == ScrapeInitWith(MaxRequests)

\* one run followed to its end: the cap is above what a run can issue
TerminationInit == ScrapeInitWith(RunRequests + 1)

CursorStartFromOne(prog, f) == 1

\* page_number = max(1, regular_progress.get(config["label"], 0) + 1)
CursorStart(prog, f) == Max(1, prog[f] + 1)

AllYieldedEarly(left) == left <= 1

\* `for item in rows` has yielded every row
AllYielded(left) == left = 0

ChainOverOffByOne(n) == n >= MAX_SKIP_CHAIN

ChainNeverOver(n) == FALSE

\* if consecutive_failures > MAX_SKIP_CHAIN, after the increment
ChainOver(n) == n > MAX_SKIP_CHAIN

SkipsPageAlways(skip, n) == ~ChainOver(n)

\* the except clause of a cursor scan, after the failure is counted as the
\* n-th in a row: `if SKIP_FAILED_PAGES:` and not `break` on the chain test
SkipsPage(skip, n) == skip /\ ~ChainOver(n)

TotalNeverReached(page, total) == FALSE

\* total_data and page_number * PAGE_SIZE >= total_data
TotalReached(page, total) == total # 0 /\ page * PAGE_SIZE >= total

configVars == <<PAGES_PER_RUN, SKIP_FAILED_PAGES, requestCap>>
pageVars == <<yieldLeft, rowsLen, total_data>>
requestVars == <<totalRequests, lastRequest, lastOutcome, requested, skipped, lateRequest>>

\* scrape_bam's end: if plan: consume_plan_file()
Finish(pl) ==
    /\ gPc' = "finished"
    /\ planFile' = IF pl.present THEN NoPlan ELSE planFile
    /\ UNCHANGED <<feed, gMode, plannedRest, page_number, consecutive_failures>>

\* the start of category f: the plan's pages for it, or the cursor scan from
\* max(1, last completed page + 1)
EnterFeed(f, pl, prog) ==
    /\ feed' = f
    /\ consecutive_failures' = 0
    /\ planFile' = planFile
    /\ IF Planned(pl, f) # <<>>
         THEN /\ gPc' = "plan"
              /\ gMode' = "plan"
              /\ plannedRest' = Planned(pl, f)
              /\ page_number' = 0
         ELSE /\ gPc' = "cursor"
              /\ gMode' = "cursor"
              /\ plannedRest' = <<>>
              /\ page_number' = CursorStart(prog, f)

\* the category is over (`continue` of the category loop, `break` of the
\* while loop, the end of fetch_auction_assets)
AfterFeed(f, pl, prog) ==
    IF f < Auction THEN EnterFeed(f + 1, pl, prog) ELSE Finish(pl)

\* `return` on an exhausted window: fetch_regular_assets ends and scrape_bam
\* goes on to fetch_auction_assets; fetch_auction_assets ends
AfterReturn(f, pl, prog) ==
    IF f < Auction THEN EnterFeed(Auction, pl, prog) ELSE Finish(pl)

\* the first next() on scrape_bam: load_progress_state, PageWindow(...),
\* load_page_plan, then the first category
ScrapeStart ==
    /\ gPc = "idle"
    /\ progress_state' = load_progress_state(progressFile)
    /\ target' = PageWindowTarget(PAGES_PER_RUN)
    /\ processed' = 0
    /\ gPlan' = planFile
    /\ EnterFeed(1, planFile, progress_state')
    /\ UNCHANGED <<gRuns, configVars, progressFile, pageVars, requestVars, markCount>>

\* _post_with_retry(..., page) is called and ends with `outcome`: it raises
\* ("failed"), or the answer has rows or none (MaxRequests caps the calls
\* of a behaviour)
Request(page, outcome) ==
    /\ totalRequests < requestCap
    /\ totalRequests' = totalRequests + 1
    /\ lastRequest' = [feed |-> feed, page |-> page]
    /\ lastOutcome' = outcome
    /\ requested' = requested \cup {[feed |-> feed, page |-> page]}
    /\ lateRequest' = (lateRequest \/ exhausted(target, processed))

\* plan gMode: the for loop has no page left
PlanListDone ==
    /\ gPc = "plan"
    /\ plannedRest = <<>>
    /\ AfterFeed(feed, gPlan, progress_state)
    /\ UNCHANGED <<gRuns, configVars, progressFile, progress_state, target, processed,
                   gPlan, pageVars, requestVars, markCount>>

\* plan gMode: if not page_window.allow_next(): return
PlanWindowExhausted ==
    /\ gPc = "plan"
    /\ plannedRest # <<>>
    /\ ~allow_next(target, processed)
    /\ AfterReturn(feed, gPlan, progress_state)
    /\ UNCHANGED <<gRuns, configVars, progressFile, progress_state, target, processed,
                   gPlan, pageVars, requestVars, markCount>>

PlanFetchNothingMarks ==
    /\ gPc = "plan"
    /\ plannedRest # <<>>
    /\ allow_next(target, processed)
    /\ \E outcome \in {"failed", "empty"} : Request(Head(plannedRest), outcome)
    /\ skipped' = skipped
    /\ page_number' = Head(plannedRest)
    /\ plannedRest' = Tail(plannedRest)
    /\ processed' = mark_complete(target, processed)
    /\ markCount' = markCount + 1
    /\ UNCHANGED <<gPc, gRuns, configVars, progressFile, planFile, progress_state, target,
                   gPlan, feed, gMode, consecutive_failures, pageVars>>

\* plan gMode: the fetch raises, or the page has no rows: continue
PlanFetchNothing ==
    /\ gPc = "plan"
    /\ plannedRest # <<>>
    /\ allow_next(target, processed)
    /\ \E outcome \in {"failed", "empty"} : Request(Head(plannedRest), outcome)
    /\ skipped' = skipped
    /\ page_number' = Head(plannedRest)
    /\ plannedRest' = Tail(plannedRest)
    /\ UNCHANGED <<gPc, gRuns, configVars, progressFile, planFile, progress_state, target,
                   processed, gPlan, feed, gMode, consecutive_failures, pageVars,
                   markCount>>

\* a fetched page with n rows: the first row is yielded
YieldFirst(n, total) ==
    /\ gPc' = "yield"
    /\ rowsLen' = n
    /\ yieldLeft' = n - 1
    /\ total_data' = total

\* plan gMode: the page has rows
PlanFetchRows(n, total) ==
    /\ gPc = "plan"
    /\ plannedRest # <<>>
    /\ allow_next(target, processed)
    /\ Request(Head(plannedRest), "rows")
    /\ skipped' = skipped
    /\ page_number' = Head(plannedRest)
    /\ plannedRest' = Tail(plannedRest)
    /\ YieldFirst(n, total)
    /\ UNCHANGED <<gRuns, configVars, progressFile, planFile, progress_state, target,
                   processed, gPlan, feed, gMode, consecutive_failures, markCount>>

\* the consumer asks for the next listing and the page has one
YieldNext ==
    /\ gPc = "yield"
    /\ yieldLeft > 0
    /\ yieldLeft' = yieldLeft - 1
    /\ UNCHANGED <<gPc, gRuns, configVars, progressFile, planFile, progress_state, target,
                   processed, gPlan, feed, gMode, plannedRest, page_number,
                   consecutive_failures, rowsLen, total_data, requestVars, markCount>>

\* regular_progress[label] = ...; save_progress_state(progress_state);
\* page_window.mark_complete(); `rows` and `result` are not read again
\* (TotalReached and the short-page test are evaluated in the same step)
CompletePage(cursor) ==
    /\ progress_state' = [progress_state EXCEPT ![feed] = cursor]
    /\ progressFile' = progress_state'
    /\ processed' = mark_complete(target, processed)
    /\ markCount' = markCount + 1
    /\ rowsLen' = 0
    /\ yieldLeft' = 0
    /\ total_data' = 0

PlanCursorOverwrites(page, cursor) == page

\* regular_progress[label] = max(page_number, regular_progress.get(label, 0))
PlanCursor(page, cursor) == Max(page, cursor)

\* plan gMode: the page's rows are all yielded
PlanPageComplete ==
    /\ gPc = "yield"
    /\ gMode = "plan"
    /\ AllYielded(yieldLeft)
    /\ CompletePage(PlanCursor(page_number, progress_state[feed]))
    /\ gPc' = "plan"
    /\ UNCHANGED <<gRuns, configVars, planFile, target, gPlan, feed, gMode, plannedRest,
                   page_number, consecutive_failures, requestVars>>

\* cursor gMode: if not page_window.allow_next(): return
CursorWindowExhausted ==
    /\ gPc = "cursor"
    /\ ~allow_next(target, processed)
    /\ AfterReturn(feed, gPlan, progress_state)
    /\ UNCHANGED <<gRuns, configVars, progressFile, progress_state, target, processed,
                   gPlan, pageVars, requestVars, markCount>>

\* what the feed may answer for a page: pages past the feed's last page
\* have no rows
MayHaveRows(page) == page <= MaxFeedPage

\* cursor gMode: the fetch raises, skipping is on and the chain is not over
\* the limit: the cursor moves to the failed page
CursorFetchFailsSkip ==
    /\ gPc = "cursor"
    /\ allow_next(target, processed)
    /\ SkipsPage(SKIP_FAILED_PAGES, consecutive_failures + 1)
    /\ Request(page_number, "failed")
    /\ skipped' = skipped \cup {[feed |-> feed, page |-> page_number]}
    /\ consecutive_failures' = consecutive_failures + 1
    /\ progress_state' = [progress_state EXCEPT ![feed] = page_number]
    /\ progressFile' = progress_state'
    /\ page_number' = page_number + 1
    /\ UNCHANGED <<gPc, gRuns, configVars, planFile, target, processed, gPlan, feed, gMode,
                   plannedRest, pageVars, markCount>>

\* cursor gMode: the fetch raises and the category is left (skipping is off,
\* or the chain is over the limit): break
CursorFetchFailsBreak ==
    /\ gPc = "cursor"
    /\ allow_next(target, processed)
    /\ ~SkipsPage(SKIP_FAILED_PAGES, consecutive_failures + 1)
    /\ Request(page_number, "failed")
    /\ skipped' = skipped
    /\ AfterFeed(feed, gPlan, progress_state)
    /\ UNCHANGED <<gRuns, configVars, progressFile, progress_state, target, processed,
                   gPlan, pageVars, markCount>>

\* cursor gMode: the page has no rows: break
CursorFetchEmpty ==
    /\ gPc = "cursor"
    /\ allow_next(target, processed)
    /\ Request(page_number, "empty")
    /\ skipped' = skipped
    /\ AfterFeed(feed, gPlan, progress_state)
    /\ UNCHANGED <<gRuns, configVars, progressFile, progress_state, target, processed,
                   gPlan, pageVars, markCount>>

\* cursor gMode: the page has rows
CursorFetchRows(n, total) ==
    /\ gPc = "cursor"
    /\ allow_next(target, processed)
    /\ MayHaveRows(page_number)
    /\ Request(page_number, "rows")
    /\ skipped' = skipped
    /\ YieldFirst(n, total)
    /\ UNCHANGED <<gRuns, configVars, progressFile, planFile, progress_state, target,
                   processed, gPlan, feed, gMode, plannedRest, page_number,
                   consecutive_failures, markCount>>

\* cursor gMode: the page's rows are all yielded; the checks after
\* mark_complete decide how the scan goes on
CursorPageComplete ==
    /\ gPc = "yield"
    /\ gMode = "cursor"
    /\ AllYielded(yieldLeft)
    /\ CompletePage(page_number)
    /\ IF ONE_PAGE_ONLY
         THEN AfterFeed(feed, gPlan, progress_state')
         ELSE IF exhausted(target, processed')
           THEN AfterReturn(feed, gPlan, progress_state')
         ELSE IF TotalReached(page_number, total_data) \/ rowsLen < PAGE_SIZE
           THEN AfterFeed(feed, gPlan, progress_state')
         ELSE /\ page_number' = page_number + 1
              /\ consecutive_failures' = 0
              /\ gPc' = "cursor"
              /\ UNCHANGED <<planFile, feed, gMode, plannedRest>>
    /\ UNCHANGED <<gRuns, configVars, target, gPlan, requestVars>>

ConnectFailsAfterFirstPull ==
    /\ gPc = "cursor"
    /\ Request(page_number, "failed")
    /\ skipped' = skipped
    /\ gPc' = "noconnection"
    /\ UNCHANGED <<gRuns, configVars, progressFile, planFile, progress_state, target,
                   processed, gPlan, feed, gMode, plannedRest, page_number,
                   consecutive_failures, pageVars, markCount>>

\* save_to_cloud(listings): get_db_connection() raises, before the for loop
\* asks the generator for its first listing; the process ends with the
\* exception and the generator was never started
ConnectFails ==
    /\ gPc = "idle"
    /\ gPc' = "noconnection"
    /\ UNCHANGED <<gRuns, configVars, progressFile, planFile, progress_state, target,
                   processed, gPlan, feed, gMode, plannedRest, page_number,
                   consecutive_failures, pageVars, requestVars, markCount>>

\* the consumer stops pulling listings; the generator is never resumed
ConsumerStops ==
    /\ gPc = "yield"
    /\ gPc' = "abandoned"
    /\ UNCHANGED <<gRuns, configVars, progressFile, planFile, progress_state, target,
                   processed, gPlan, feed, gMode, plannedRest, page_number,
                   consecutive_failures, pageVars, requestVars, markCount>>

\* the process is started again: nothing but the files is kept
NextRun ==
    /\ gPc \in {"finished", "abandoned"}
    /\ gRuns + 1 < MaxScrapeRuns
    /\ gRuns' = gRuns + 1
    /\ gPc' = "idle"
    /\ progress_state' = ZeroProgress
    /\ target' = NoTarget
    /\ processed' = 0
    /\ gPlan' = NoPlan
    /\ feed' = 1
    /\ gMode' = "cursor"
    /\ plannedRest' = <<>>
    /\ page_number' = 0
    /\ consecutive_failures' = 0
    /\ yieldLeft' = 0
    /\ rowsLen' = 0
    /\ total_data' = 0
    /\ lastRequest' = NoRequest
    /\ lastOutcome' = "none"
    /\ requested' = {}
    /\ skipped' = skipped
    /\ totalRequests' = totalRequests
    /\ lateRequest' = FALSE
    /\ markCount' = 0
    /\ UNCHANGED <<configVars, progressFile, planFile>>

(***************************************************************************)
(*           normalize_regular_item, normalize_auction_item                *)
(***************************************************************************)
\* A JSON value of a raw record or a Python float, by its kind: "none"
\* (absent or null), "num" (a number, v), "nan" (the float nan), "text" (a
\* string without a digit), "numtext" (a string with the number v in it that
\* float() rejects), "nanstr" (the string "nan"), "dict" (a JSON object with
\* the coordinates lat and lon), "list" (a non-empty list).
NoneV == [k |-> "none", v |-> 0]
NaN == [k |-> "nan", v |-> 0]
Num(n) == [k |-> "num", v |-> n]
Text == [k |-> "text", v |-> 0]
NumText(n) == [k |-> "numtext", v |-> n]
NanStr == [k |-> "nanstr", v |-> 0]

\* the number a valid field holds
MaxNum == 5

\* coordinates in thousandths of a degree: 13.7, 100.5 and the 0.1 of
\* random.random() * 0.1
LatBase == 13700
LonBase == 100500
BoxSpan == 100
\* values of random.random() * 0.1, in [0, 0.1)
RandomOffsets == {0, BoxSpan - 1}

RawScalars == {NoneV, Num(MaxNum), Text, NanStr}
RawAreas == RawScalars \cup {NumText(MaxNum)}
NoCoord == [k |-> "none", v |-> 0, lat |-> NoneV, lon |-> NoneV]
\* item.get("map"): absent, a string, a list, or an object with coordinates
RawMaps ==
    {NoCoord,
     [k |-> "text", v |-> 0, lat |-> NoneV, lon |-> NoneV],
     [k |-> "list", v |-> 0, lat |-> NoneV, lon |-> NoneV]}
      \cup {[k |-> "dict", v |-> 0, lat |-> a, lon |-> b] :
                a \in {NoneV, Num(MaxNum), Text}, b \in {NoneV, Num(MaxNum), Text, NanStr}}

RegularRecords ==
    [sellPrice : RawScalars, shockPrice : RawScalars, discountPrice : RawScalars,
     usableArea : RawScalars, areaMeter : RawScalars, areaWa : RawScalars,
     map : RawMaps]
AuctionRecords ==
    [priceSetByCommittee : RawScalars, priceEstimateOfLegalOfficer : RawScalars,
     priceEstimateOfReciveorship : RawScalars, area : RawAreas]

\* bool(x)
Truthy(x) ==
    CASE x.k = "none" -> FALSE
      [] x.k = "num" -> x.v # 0
      [] OTHER -> TRUE

\* a or b
Or(a, b) == IF Truthy(a) THEN a ELSE b

\* to_float: None gives the default, float(value) is returned when it
\* succeeds (float("nan") does), TypeError and ValueError give the default
to_float(value, default) ==
    CASE value.k = "none" -> default
      [] value.k = "num" -> value
      [] value.k = "nan" -> value
      [] value.k = "nanstr" -> NaN
      [] OTHER -> default

\* extract_number: the first run of digits of str(text)
extract_number(text) ==
    IF ~Truthy(text) THEN NoneV
    ELSE CASE text.k = "num" -> Num(text.v)
           [] text.k = "numtext" -> Num(text.v)
           [] OTHER -> NoneV

\* the call raised: there is no listing
Raised == [raised |-> TRUE, price |-> NoneV, size |-> NoneV, lat |-> NoneV, lon |-> NoneV]

\* normalize_regular_item, for the random() values r1 and r2: price, size and
\* the coordinates of the listing; map_info.get raises AttributeError when
\* map_info is no dict
normalize_regular_item(item, r1, r2) ==
    LET price == Or(to_float(Or(Or(Or(item.sellPrice, item.shockPrice), item.discountPrice),
                                Num(0)), Num(0)), Num(0))
        size == Or(to_float(Or(Or(item.usableArea, item.areaMeter), item.areaWa), NoneV),
                   Num(0))
        map_info == Or(item.map, [k |-> "dict", v |-> 0, lat |-> NoneV, lon |-> NoneV])
        lat == to_float(Or(map_info.lat, NoneV), NoneV)
        lon == to_float(Or(map_info.lon, NoneV), NoneV)
        synthetic == lat = NoneV \/ lon = NoneV
    IN  IF map_info.k # "dict" THEN Raised
        ELSE [raised |-> FALSE, price |-> price, size |-> size,
              lat |-> IF synthetic THEN Num(LatBase + r1) ELSE lat,
              lon |-> IF synthetic THEN Num(LonBase + r2) ELSE lon]

\* normalize_auction_item, for the random() values r1 and r2
normalize_auction_item(item, r1, r2) ==
    LET price == Or(to_float(Or(Or(Or(item.priceSetByCommittee,
                                      item.priceEstimateOfLegalOfficer),
                                   item.priceEstimateOfReciveorship),
                                Num(0)), Num(0)), Num(0))
        size == Or(extract_number(item.area), Num(0))
    IN  [raised |-> FALSE, price |-> price, size |-> size,
         lat |-> Num(LatBase + r1), lon |-> Num(LonBase + r2)]

NormIdle ==
    /\ nPc = "idle"
    /\ nVariant = "regular"
    /\ rawItem = NoneV
    /\ listing = NoneV

\* a raw record of either feed is at hand
NormInit ==
    /\ nPc = "input"
    /\ \/ nVariant = "regular" /\ rawItem \in RegularRecords
       \/ nVariant = "auction" /\ rawItem \in AuctionRecords
    /\ listing = NoneV

\* yield normalize_regular_item(item, config)
NormalizeRegular ==
    /\ nPc = "input"
    /\ nVariant = "regular"
    /\ \E r1 \in RandomOffsets, r2 \in RandomOffsets :
          listing' = normalize_regular_item(rawItem, r1, r2)
    /\ nPc' = "done"
    /\ UNCHANGED <<nVariant, rawItem>>

\* yield normalize_auction_item(item)
NormalizeAuction ==
    /\ nPc = "input"
    /\ nVariant = "auction"
    /\ \E r1 \in RandomOffsets, r2 \in RandomOffsets :
          listing' = normalize_auction_item(rawItem, r1, r2)
    /\ nPc' = "done"
    /\ UNCHANGED <<nVariant, rawItem>>

(***************************************************************************)
(*          load_progress_state on an arbitrary progress file              *)
(***************************************************************************)
\* bound: the largest number stored in the file
MaxStored == 2

\* JSON values a page entry may hold
JNull == [k |-> "null", v |-> 0]
JInt(n) == [k |-> "int", v |-> n]
\* n + 0.5 for n >= 0, n - 0.5 for n < 0
JHalf(n) == [k |-> "half", v |-> n]
\* Infinity, or a number float() parses to it
JInf == [k |-> "inf", v |-> 0]
JNaN == [k |-> "nan", v |-> 0]
\* the decimal text of n
JStr(n) == [k |-> "str", v |-> n]
JText == [k |-> "text", v |-> 0]
JList == [k |-> "list", v |-> 0]

StoredValues ==
    {JNull, JInf, JNaN, JText, JList}
       \cup {JInt(n) : n \in {-1, 0, MaxStored}}
       \cup {JHalf(n) : n \in {-1, MaxStored}}
       \cup {JStr(n) : n \in {-1, MaxStored}}

\* the exception classes raised inside load_progress_state
ExceptionClasses == {"JSONDecodeError", "AttributeError", "OverflowError"}

CaughtOnlyValueErrors(exc) == exc \in {"JSONDecodeError"}

\* except Exception: every class above derives from Exception
CaughtByLoad(exc) == exc \in ExceptionClasses

\* _coerce_page_value(value), default 0: the page, or the exception that
\* `except (TypeError, ValueError)` lets through
CoercePageValue(value) ==
    CASE value.k = "int" -> [exc |-> "", page |-> Max(0, value.v)]
      [] value.k = "half" -> [exc |-> "", page |-> Max(0, value.v)]
      [] value.k = "str" -> [exc |-> "", page |-> Max(0, value.v)]
      [] value.k = "inf" -> [exc |-> "OverflowError", page |-> 0]
      [] OTHER -> [exc |-> "", page |-> 0]

\* the `regular` member of the file: absent or falsy, a truthy value that is
\* not an object, or the entries of an object in file order
RegularEntries ==
    {e \in UNION {[1..n -> (1..NumCat) \X StoredValues] : n \in 0..NumCat} :
        \A i, j \in 1..Len(e) : i # j => e[i][1] # e[j][1]}

RegularMembers ==
    {[k |-> "absent", entries |-> <<>>], [k |-> "list", entries |-> <<>>]}
       \cup {[k |-> "object", entries |-> e] : e \in RegularEntries}

\* the `auction` member: absent or falsy, a truthy non-object, an object
\* without `page`, or an object with it
AuctionMembers ==
    {[k |-> "absent", page |-> JNull], [k |-> "list", page |-> JNull],
     [k |-> "object", page |-> JNull]}
       \cup {[k |-> "object", page |-> v] : v \in StoredValues \ {JNull}}

NoMembers == [k |-> "absent", entries |-> <<>>]

\* what PROGRESS_FILE may hold: nothing (no file), text json.load rejects, a
\* JSON value that is not an object, or an object
ProgressContents ==
    {[k |-> c, regular |-> NoMembers, auction |-> [k |-> "absent", page |-> JNull]] :
        c \in {"missing", "unparseable", "array", "number", "null"}}
       \cup {[k |-> "object", regular |-> r, auction |-> a] :
                r \in RegularMembers, a \in AuctionMembers}

\* state = {"regular": {}, "auction": {"page": 0}}
DefaultState == [regular |-> <<>>, auction |-> 0, escaped |-> ""]

\* for key, value in regular_map.items(): state["regular"][str(key)] = ...
\* the entries stored before one raises, and what it raised
RECURSIVE LoadRegular(_, _)
LoadRegular(entries, regular) ==
    IF entries = <<>> THEN [exc |-> "", regular |-> regular]
    ELSE LET c == CoercePageValue(Head(entries)[2])
         IN  IF c.exc # "" THEN [exc |-> c.exc, regular |-> regular]
             ELSE LoadRegular(Tail(entries),
                              Append(regular, <<Head(entries)[1], c.page>>))

\* the body of the try block: the state when it ends and the exception that
\* ended it, if any
LoadBody(content) ==
    CASE content.k = "missing" -> [exc |-> "", regular |-> <<>>, auction |-> 0]
      [] content.k = "unparseable" ->
            [exc |-> "JSONDecodeError", regular |-> <<>>, auction |-> 0]
      [] content.k = "object" ->
            IF content.regular.k = "list"
              THEN [exc |-> "AttributeError", regular |-> <<>>, auction |-> 0]
              ELSE LET r == LoadRegular(content.regular.entries, <<>>)
                       a == CoercePageValue(content.auction.page)
                   IN  IF r.exc # ""
                         THEN [exc |-> r.exc, regular |-> r.regular, auction |-> 0]
                       ELSE IF content.auction.k # "object"
                         THEN [exc |-> "", regular |-> r.regular, auction |-> 0]
                       ELSE [exc |-> a.exc, regular |-> r.regular, auction |-> a.page]
      [] OTHER -> [exc |-> "", regular |-> <<>>, auction |-> 0]

\* load_progress_state() on the given file content: the state returned;
\* `escaped` names the exception that left the function instead, if any
LoadProgressState(content) ==
    LET b == LoadBody(content)
    IN  IF b.exc # "" /\ ~CaughtByLoad(b.exc)
          THEN [regular |-> <<>>, auction |-> 0, escaped |-> b.exc]
          ELSE [regular |-> b.regular, auction |-> b.auction, escaped |-> ""]

LoadIdle ==
    /\ lPc = "idle"
    /\ progressContent = [k |-> "missing", regular |-> NoMembers,
                          auction |-> [k |-> "absent", page |-> JNull]]
    /\ loaded = DefaultState

\* the file is whatever an earlier run, an editor or a torn write left
LoadInit ==
    /\ lPc = "idle"
    /\ progressContent \in ProgressContents
    /\ loaded = DefaultState

\* progress_state = load_progress_state()
LoadProgress ==
    /\ lPc = "idle"
    /\ lPc' = "loaded"
    /\ loaded' = LoadProgressState(progressContent)
    /\ UNCHANGED progressContent

(***************************************************************************)
(*   save_to_cloud(scrape_bam()): the generator and its consumer together  *)
(***************************************************************************)
\* bounds
MaxPipePage == 3
MaxPipeRuns == 2

PipePages == 1..MaxPipePage

\* the listing at position i of page p
ListingAt(p, i) == <<p, i>>

PipeIdle ==
    /\ kPc = "fetch"
    /\ kRuns = 0
    /\ kPage = 1
    /\ kRows = 0
    /\ kLeft = 0
    /\ kFailures = 0
    /\ kProgress = 0
    /\ kCompleted = [p \in PipePages |-> 0]
    /\ kTxn = {}
    /\ kStore = {}
    /\ kBatch = 0

\* a first run on an empty store with no progress file: the consumer's first
\* next() has started the generator, page_number = max(1, 0 + 1)
PipeInit ==
    /\ kPc = "fetch"
    /\ kRuns = 1
    /\ kPage = 1
    /\ kRows = 0
    /\ kLeft = 0
    /\ kFailures = 0
    /\ kProgress = 0
    /\ kCompleted = [p \in PipePages |-> 0]
    /\ kTxn = {}
    /\ kStore = {}
    /\ kBatch = 0

\* _post_with_retry returns a page of n rows
PipeFetchRows(n) ==
    /\ kPc = "fetch"
    /\ kPage <= MaxPipePage
    /\ kRows' = n
    /\ kLeft' = n
    /\ kPc' = "yield"
    /\ UNCHANGED <<kRuns, kPage, kFailures, kProgress, kCompleted, kTxn, kStore, kBatch>>

\* `if not rows: break`: the generator ends and the consumer's loop with it
PipeFetchEmpty ==
    /\ kPc = "fetch"
    /\ kPc' = "exhausted"
    /\ UNCHANGED <<kRuns, kPage, kRows, kLeft, kFailures, kProgress, kCompleted, kTxn,
                   kStore, kBatch>>

\* the request raises: the page is skipped and written to the progress file,
\* or the category is left
PipeFetchFails ==
    /\ kPc = "fetch"
    /\ kPage <= MaxPipePage
    /\ IF SKIP_FAILED_PAGES /\ ~ChainOver(kFailures + 1)
         THEN /\ kFailures' = kFailures + 1
              /\ kProgress' = kPage
              /\ kPage' = kPage + 1
              /\ kPc' = "fetch"
         ELSE /\ kFailures' = IF SKIP_FAILED_PAGES THEN kFailures + 1 ELSE kFailures
              /\ kPc' = "exhausted"
              /\ UNCHANGED <<kProgress, kPage>>
    /\ UNCHANGED <<kRuns, kRows, kLeft, kCompleted, kTxn, kStore, kBatch>>

\* the generator yields the page's next listing and save_to_cloud executes
\* its upsert; a batch of fresh inserts is committed when full
PipeUpsert ==
    /\ kPc = "yield"
    /\ kLeft > 0
    /\ LET item == ListingAt(kPage, kRows - kLeft + 1)
           inserted == item \notin kTxn
       IN  /\ kTxn' = kTxn \cup {item}
           /\ kBatch' = IF inserted THEN kBatch + 1 ELSE kBatch
    /\ kLeft' = kLeft - 1
    /\ IF BatchFull(kBatch')
         THEN /\ kStore' = Commit(kStore, kTxn')
              /\ kPc' = "confirm"
         ELSE /\ kStore' = kStore
              /\ kPc' = "yield"
    /\ UNCHANGED <<kRuns, kPage, kRows, kFailures, kProgress, kCompleted>>

\* wait_for_user_confirmation returns True: batch_number += 1; batch_inserted = 0
PipeOperatorContinues ==
    /\ kPc = "confirm"
    /\ wait_for_user_confirmation(FALSE)
    /\ kBatch' = 0
    /\ kPc' = "yield"
    /\ UNCHANGED <<kRuns, kPage, kRows, kLeft, kFailures, kProgress, kCompleted, kTxn,
                   kStore>>

\* wait_for_user_confirmation returns False: break, the last conn.commit()
PipeOperatorAborts ==
    /\ kPc = "confirm"
    /\ ~wait_for_user_confirmation(TRUE)
    /\ kStore' = Commit(kStore, kTxn)
    /\ kPc' = "done"
    /\ UNCHANGED <<kRuns, kPage, kRows, kLeft, kFailures, kProgress, kCompleted, kTxn,
                   kBatch>>

\* the consumer asks for the next listing after the page's last one: the
\* generator records the page and goes on to the next
PipePageComplete ==
    /\ kPc = "yield"
    /\ AllYielded(kLeft)
    /\ kProgress' = kPage
    /\ kCompleted' = [kCompleted EXCEPT ![kPage] = kRows]
    /\ kFailures' = 0
    /\ kPage' = kPage + 1
    /\ kPc' = "fetch"
    /\ UNCHANGED <<kRuns, kRows, kLeft, kTxn, kStore, kBatch>>

\* the loop has ended: conn.commit(); conn.close()
PipeFinalCommit ==
    /\ kPc = "exhausted"
    /\ kStore' = Commit(kStore, kTxn)
    /\ kPc' = "done"
    /\ UNCHANGED <<kRuns, kPage, kRows, kLeft, kFailures, kProgress, kCompleted, kTxn,
                   kBatch>>

\* the process is killed, or cur.execute / conn.commit raises: the open
\* transaction is lost, the progress file stays
PipeCrash ==
    /\ kPc \in {"fetch", "yield", "confirm", "exhausted"}
    /\ kTxn' = kStore
    /\ kPc' = "crashed"
    /\ UNCHANGED <<kRuns, kPage, kRows, kLeft, kFailures, kProgress, kCompleted, kStore,
                   kBatch>>

\* the next run: load_progress_state, page_number = max(1, page + 1)
PipeRestart ==
    /\ kPc \in {"done", "crashed"}
    /\ kRuns < MaxPipeRuns
    /\ kRuns' = kRuns + 1
    /\ kPage' = Max(1, kProgress + 1)
    /\ kRows' = 0
    /\ kLeft' = 0
    /\ kFailures' = 0
    /\ kBatch' = 0
    /\ kTxn' = kStore
    /\ kPc' = "fetch"
    /\ UNCHANGED <<kProgress, kCompleted, kStore>>

(***************************************************************************)
(*                    bam_snapshot: the snapshot tool                      *)
(***************************************************************************)
\* bounds
MaxSnapRuns == 3
MaxSnapTotal == 3

\* totalData values a feed reports
SnapTotals == {0, MaxSnapTotal}

\* math.ceil(total_records / PAGE_SIZE) if total_records else 0
PageCountOf(total_records) ==
    IF total_records # 0 THEN (total_records + PAGE_SIZE - 1) \div PAGE_SIZE ELSE 0

\* the rows of a (feed_type, category) pair among the first n rows
RowsOf(table, n, f) == {i \in 1..n : table[i].feed = f}

RankedAscending(table, n, f) ==
    {i \in RowsOf(table, n, f) :
        \A j \in RowsOf(table, n, f) : table[i].checked_at <= table[j].checked_at}

\* ROW_NUMBER() OVER (PARTITION BY feed_type, category ORDER BY checked_at
\* DESC) = 1: the rows the query may return for the pair (one of them, when
\* several share the greatest checked_at)
Ranked(table, n, f) ==
    {i \in RowsOf(table, n, f) :
        \A j \in RowsOf(table, n, f) : table[j].checked_at <= table[i].checked_at}

\* fetch_latest_snapshot_map: the maps the query may produce
LatestMaps(table) ==
    {m \in [Feeds -> 0..Len(table)] :
        \A f \in Feeds :
           IF Ranked(table, Len(table), f) = {}
             THEN m[f] = 0
             ELSE m[f] \in Ranked(table, Len(table), f)}

PreviousPagesAfterInsert(table, m, f) ==
    IF Ranked(table, Len(table), f) = {} THEN NoSnapshot
    ELSE table[CHOOSE i \in Ranked(table, Len(table), f) : TRUE].page_count

\* previous.get((snap.feed_type, snap.category)), as the page count
\* _compute_plan_pages reads from it
PreviousPages(table, m, f) ==
    IF m[f] = 0 THEN NoSnapshot ELSE table[m[f]].page_count

\* persist_snapshots: INSERT INTO bam_feed_snapshot ... VALUES (..., NOW())
\* for every snapshot of the list
persist_snapshots(table, snapshots, now) ==
    table \o [i \in 1..Len(snapshots) |->
                 [feed |-> snapshots[i].feed, total_records |-> snapshots[i].total_records,
                  page_count |-> snapshots[i].page_count, checked_at |-> now]]

NoSnapPlan == [present |-> FALSE, pages |-> [f \in Feeds |-> <<>>]]

SnapIdle ==
    /\ tPc = "idle"
    /\ snapRuns = 0
    /\ snapTable = <<>>
    /\ snapNow = 0
    /\ rowsAtRead = 0
    /\ previous_map = [f \in Feeds |-> 0]
    /\ current_snapshots = <<>>
    /\ snapPlanFile = NoSnapPlan

\* the table is empty and no plan file exists before the first run
SnapInit == SnapIdle

\* main: get_db_connection, ensure_snapshot_table, fetch_latest_snapshot_map
SnapshotStart ==
    /\ tPc \in {"idle", "done", "failed"}
    /\ snapRuns < MaxSnapRuns
    /\ snapRuns' = snapRuns + 1
    /\ previous_map' \in LatestMaps(snapTable)
    /\ rowsAtRead' = Len(snapTable)
    /\ current_snapshots' = <<>>
    /\ tPc' = "collect"
    /\ UNCHANGED <<snapTable, snapNow, snapPlanFile>>

\* collect_current_metadata: the next category's (then the auction feed's)
\* page 1 is fetched and its snapshot appended
CollectCategory(total_records) ==
    /\ tPc = "collect"
    /\ Len(current_snapshots) < Auction
    /\ current_snapshots' =
          Append(current_snapshots,
                 [feed |-> Len(current_snapshots) + 1, total_records |-> total_records,
                  page_count |-> PageCountOf(total_records)])
    /\ UNCHANGED <<tPc, snapRuns, snapTable, snapNow, rowsAtRead, previous_map,
                   snapPlanFile>>

CollectFailsAfterInserts ==
    /\ tPc = "collect"
    /\ Len(current_snapshots) < Auction
    /\ tPc' = "failed"
    /\ snapNow' = snapNow + 1
    /\ snapTable' = persist_snapshots(snapTable, current_snapshots, snapNow')
    /\ UNCHANGED <<snapRuns, rowsAtRead, previous_map, current_snapshots, snapPlanFile>>

\* collect_current_metadata: _post_with_retry or response.json() raises; the
\* finally clause closes the connection and main ends with the exception
CollectFails ==
    /\ tPc = "collect"
    /\ Len(current_snapshots) < Auction
    /\ tPc' = "failed"
    /\ UNCHANGED <<snapRuns, snapTable, snapNow, rowsAtRead, previous_map,
                   current_snapshots, snapPlanFile>>

\* persist_snapshots(conn, current_snapshots) and its commit; NOW() is the
\* start of the run's transaction, later than that of every earlier run
PersistSnapshots ==
    /\ tPc = "collect"
    /\ Len(current_snapshots) = Auction
    /\ snapNow' = snapNow + 1
    /\ snapTable' = persist_snapshots(snapTable, current_snapshots, snapNow')
    /\ tPc' = "persisted"
    /\ UNCHANGED <<snapRuns, rowsAtRead, previous_map, current_snapshots, snapPlanFile>>

\* persist_snapshots raises: nothing is committed
PersistFails ==
    /\ tPc = "collect"
    /\ Len(current_snapshots) = Auction
    /\ tPc' = "failed"
    /\ UNCHANGED <<snapRuns, snapTable, snapNow, rowsAtRead, previous_map,
                   current_snapshots, snapPlanFile>>

\* plan = build_page_plan(previous_map, current_snapshots);
\* write_plan_file(plan): the pages of every feed (none: the feed is left out)
WritePlanFile ==
    /\ tPc = "persisted"
    /\ snapPlanFile' =
          [present |-> TRUE,
           pages |-> [f \in Feeds |->
                        _compute_plan_pages(current_snapshots[f].page_count,
                                            PreviousPages(snapTable, previous_map, f),
                                            HEAD_REFRESH_PAGES, TAIL_RECHECK_PAGES)]]
    /\ tPc' = "done"
    /\ UNCHANGED <<snapRuns, snapTable, snapNow, rowsAtRead, previous_map,
                   current_snapshots>>

(***************************************************************************)
(*                              PageWindow                                 *)
(***************************************************************************)
MaxMarks == 6

\* the values PageWindow(target) is constructed with: None or an integer
NoneArg == [isNone |-> TRUE, v |-> 0]

IntArg(n) == [isNone |-> FALSE, v |-> n]

WindowArgs == {NoneArg} \cup {IntArg(n) : n \in -1..MaxMarks}

\* Python truthiness of the argument: None and 0 are falsy
ArgTruthy(arg) == ~arg.isNone /\ arg.v # 0

\* PageWindow.__init__: self.target = target if target and target > 0 else None
PageWindow(arg) == IF ArgTruthy(arg) THEN PageWindowTarget(arg.v) ELSE NoTarget

WindowIdle ==
    /\ wPc = "idle"
    /\ wArg = NoneArg
    /\ wTarget = NoTarget
    /\ wProcessed = 0
    /\ wBefore = 0
    /\ wAllowed = TRUE
    /\ wExhausted = FALSE

WindowInit ==
    /\ wPc = "new"
    /\ wArg \in WindowArgs
    /\ wTarget = NoTarget
    /\ wProcessed = 0
    /\ wBefore = 0
    /\ wAllowed = TRUE
    /\ wExhausted = FALSE

\* page_window = PageWindow(target)
WindowNew ==
    /\ wPc = "new"
    /\ wTarget' = PageWindow(wArg)
    /\ wProcessed' = 0
    /\ wPc' = "ready"
    /\ UNCHANGED <<wArg, wBefore, wAllowed, wExhausted>>

\* page_window.allow_next() and page_window.exhausted(), called one after the
\* other on the same window
WindowProbe ==
    /\ wPc \in {"ready", "marked"}
    /\ wAllowed' = allow_next(wTarget, wProcessed)
    /\ wExhausted' = exhausted(wTarget, wProcessed)
    /\ wPc' = "probed"
    /\ UNCHANGED <<wArg, wTarget, wProcessed, wBefore>>

\* page_window.mark_complete(); the class lets processed pass the target
WindowMark ==
    /\ wPc \in {"ready", "probed", "marked"}
    /\ wProcessed <= MaxMarks
    /\ wBefore' = wProcessed
    /\ wProcessed' = mark_complete(wTarget, wProcessed)
    /\ wPc' = "marked"
    /\ UNCHANGED <<wArg, wTarget, wAllowed, wExhausted>>

(***************************************************************************)
(*                           calculate_rating                              *)
(***************************************************************************)
MaxSqm == 2

BigFlipLimit == 40000

CashFlowLimit == 80000

BaseScore == 5

\* random.randint(a, b) of the three simulated scores
TransportScores == 4..10

FoodScores == 5..10

SafetyScores == 6..10

\* sizes: none (0), negative, and 1..MaxSqm square metres
RatedSizes == -1..MaxSqm

\* prices on and next to both limits for every size, and a negative one
RatedPrices ==
    {-1, 0} \cup {limit * z + d : limit \in {BigFlipLimit, CashFlowLimit},
                                  z \in 1..MaxSqm, d \in {-1, 0, 1}}

\* price_per_sqm = price / size if size > 0 else 0, compared with a limit:
\* price / size < limit exactly when price < limit * size (size > 0)
PricePerSqmBelowOrAt(price, size, limit) ==
    IF size > 0 THEN price <= limit * size ELSE 0 <= limit

PricePerSqmBelow(price, size, limit) ==
    IF size > 0 THEN price < limit * size ELSE 0 < limit

\* score += 2 / score += 1 / nothing
StrategyOf(price, size) ==
    IF PricePerSqmBelow(price, size, BigFlipLimit) THEN "Big Flip"
    ELSE IF PricePerSqmBelow(price, size, CashFlowLimit) THEN "Cash Flow"
    ELSE "Hold"

BonusOf(strategy) ==
    IF strategy = "Big Flip" THEN 2 ELSE IF strategy = "Cash Flow" THEN 1 ELSE 0

\* round(x, 1) of a number of hundredths: to the nearest tenth, ties to even
RoundToTenth(h) ==
    LET r == h % 10
        down == h - r
    IN  IF r < 5 THEN down
        ELSE IF r > 5 THEN down + 10
        ELSE IF (down \div 10) % 2 = 0 THEN down ELSE down + 10

\* total_rating = min(10, score + transport_score/10 + food_score/10), in
\* hundredths
TotalRatingUncapped(score, transport, food) == 100 * score + 10 * transport + 10 * food

TotalRating(score, transport, food) ==
    Min(1000, 100 * score + 10 * transport + 10 * food)

\* the dictionary calculate_rating returns; rating in hundredths
calculate_rating(price, size, transport, food, safety) ==
    LET strategy == StrategyOf(price, size)
        score == BaseScore + BonusOf(strategy)
    IN  [strategy |-> strategy,
         rating |-> RoundToTenth(TotalRating(score, transport, food)),
         transport |-> transport,
         food |-> food,
         safety |-> safety]

NoMetrics == [strategy |-> "", rating |-> 0, transport |-> 0, food |-> 0, safety |-> 0]

RatingIdle ==
    /\ cPc = "idle"
    /\ ratedPrice = 0
    /\ ratedSize = 0
    /\ metrics = NoMetrics

RatingInit ==
    /\ cPc = "call"
    /\ ratedPrice \in RatedPrices
    /\ ratedSize \in RatedSizes
    /\ metrics = NoMetrics

CalculateRating ==
    /\ cPc = "call"
    /\ \E transport \in TransportScores, food \in FoodScores, safety \in SafetyScores :
          metrics' = calculate_rating(ratedPrice, ratedSize, transport, food, safety)
    /\ cPc' = "returned"
    /\ UNCHANGED <<ratedPrice, ratedSize>>

(***************************************************************************)
(*        One category: a run that follows a plan, then a cursor run       *)
(***************************************************************************)
MaxResumePage == 4

\* plan_pages.get(label, []): lists of one or two pages
ResumeRawLists ==
    UNION {[1..n -> 1..MaxResumePage] : n \in 1..2}

ResumeIdle ==
    /\ uPc = "idle"
    /\ uCursor = 0
    /\ uBefore = 0
    /\ uPlanned = <<>>
    /\ uHighest = 0
    /\ uStart = 0

\* the category's cursor as earlier runs left it, and planned =
\* sorted(set(buffered)), not empty
ResumeInit ==
    /\ uPc = "plan"
    /\ uCursor \in 0..MaxResumePage
    /\ uBefore = uCursor
    /\ \E raw \in ResumeRawLists : uPlanned = sorted(SetOf(Buffered(raw)))
    /\ uHighest = 0
    /\ uStart = 0

\* the fetch of the planned page raises or the page has no rows: continue
ResumePlanNothing ==
    /\ uPc = "plan"
    /\ uPlanned # <<>>
    /\ uPlanned' = Tail(uPlanned)
    /\ UNCHANGED <<uPc, uCursor, uBefore, uHighest, uStart>>

\* the planned page has rows; after the yields the cursor is written and saved
ResumePlanComplete ==
    /\ uPc = "plan"
    /\ uPlanned # <<>>
    /\ uCursor' = PlanCursor(Head(uPlanned), uCursor)
    /\ uHighest' = Head(uPlanned)
    /\ uPlanned' = Tail(uPlanned)
    /\ UNCHANGED <<uPc, uBefore, uStart>>

\* the for loop over planned ends: `continue`, the category is done for the run
ResumePlanDone ==
    /\ uPc = "plan"
    /\ uPlanned = <<>>
    /\ uPc' = "between"
    /\ UNCHANGED <<uCursor, uBefore, uPlanned, uHighest, uStart>>

\* a later run without a plan for the category:
\* page_number = max(1, regular_progress.get(label, 0) + 1)
ResumeCursorStart ==
    /\ uPc = "between"
    /\ uStart' = CursorStart([f \in {1} |-> uCursor], 1)
    /\ uPc' = "started"
    /\ UNCHANGED <<uCursor, uBefore, uPlanned, uHighest>>

(***************************************************************************)
(*                            Specifications                               *)
(***************************************************************************)
OthersIdleForRetry == PlanIdle /\ SaveIdle /\ ScrapeIdle /\ NormIdle /\ SnapIdle /\ LoadIdle /\ PipeIdle /\ WindowIdle /\ RatingIdle /\ ResumeIdle

RetrySpecInit == RetryInit /\ OthersIdleForRetry

RetrySpecNext ==
    \/ (\E status \in HttpStatuses : PostReturns(status)) /\ UNCHANGED <<planVars, saveVars, scrapeVars, normVars, snapVars, loadVars, pipeVars, windowVars, ratingVars, resumeVars>>
    \/ (\E status \in HttpStatuses : PostHttpError(status)) /\ UNCHANGED <<planVars, saveVars, scrapeVars, normVars, snapVars, loadVars, pipeVars, windowVars, ratingVars, resumeVars>>
    \/ (\E kind \in NetworkErrors : PostNetworkError(kind)) /\ UNCHANGED <<planVars, saveVars, scrapeVars, normVars, snapVars, loadVars, pipeVars, windowVars, ratingVars, resumeVars>>

SpecRetry == RetrySpecInit /\ [][RetrySpecNext]_vars

OthersIdleForPlan == RetryIdle /\ SaveIdle /\ ScrapeIdle /\ NormIdle /\ SnapIdle /\ LoadIdle /\ PipeIdle /\ WindowIdle /\ RatingIdle /\ ResumeIdle

PlanSpecInit == PlanInit /\ OthersIdleForPlan

PlanSpecNext ==
    \/ ComputePlanPages /\ UNCHANGED <<retryVars, saveVars, scrapeVars, normVars, snapVars, loadVars, pipeVars, windowVars, ratingVars, resumeVars>>
    \/ BuildPagePlan /\ UNCHANGED <<retryVars, saveVars, scrapeVars, normVars, snapVars, loadVars, pipeVars, windowVars, ratingVars, resumeVars>>

SpecPlan == PlanSpecInit /\ [][PlanSpecNext]_vars

OthersIdleForSave == RetryIdle /\ PlanIdle /\ ScrapeIdle /\ NormIdle /\ SnapIdle /\ LoadIdle /\ PipeIdle /\ WindowIdle /\ RatingIdle /\ ResumeIdle

SaveSpecInit == SaveInit /\ OthersIdleForSave

SaveSpecNext ==
    \/ (\E mode \in {"fresh", "replay"} : StartRun(mode)) /\ UNCHANGED <<retryVars, planVars, scrapeVars, normVars, snapVars, loadVars, pipeVars, windowVars, ratingVars, resumeVars>>
    \/ (\E item \in Listings : SkipNoUrl(item)) /\ UNCHANGED <<retryVars, planVars, scrapeVars, normVars, snapVars, loadVars, pipeVars, windowVars, ratingVars, resumeVars>>
    \/ (\E item \in Listings : SkipDuplicate(item)) /\ UNCHANGED <<retryVars, planVars, scrapeVars, normVars, snapVars, loadVars, pipeVars, windowVars, ratingVars, resumeVars>>
    \/ (\E item \in Listings : UpsertListing(item)) /\ UNCHANGED <<retryVars, planVars, scrapeVars, normVars, snapVars, loadVars, pipeVars, windowVars, ratingVars, resumeVars>>
    \/ (\E item \in Listings : ExecuteFails(item)) /\ UNCHANGED <<retryVars, planVars, scrapeVars, normVars, snapVars, loadVars, pipeVars, windowVars, ratingVars, resumeVars>>
    \/ (\E item \in Listings : BatchCommitFails(item)) /\ UNCHANGED <<retryVars, planVars, scrapeVars, normVars, snapVars, loadVars, pipeVars, windowVars, ratingVars, resumeVars>>
    \/ OperatorContinues /\ UNCHANGED <<retryVars, planVars, scrapeVars, normVars, snapVars, loadVars, pipeVars, windowVars, ratingVars, resumeVars>>
    \/ OperatorAborts /\ UNCHANGED <<retryVars, planVars, scrapeVars, normVars, snapVars, loadVars, pipeVars, windowVars, ratingVars, resumeVars>>
    \/ EndOfListings /\ UNCHANGED <<retryVars, planVars, scrapeVars, normVars, snapVars, loadVars, pipeVars, windowVars, ratingVars, resumeVars>>
    \/ FinalCommitFails /\ UNCHANGED <<retryVars, planVars, scrapeVars, normVars, snapVars, loadVars, pipeVars, windowVars, ratingVars, resumeVars>>

SpecSave == SaveSpecInit /\ [][SaveSpecNext]_vars

OthersIdleForScrape == RetryIdle /\ PlanIdle /\ SaveIdle /\ NormIdle /\ SnapIdle /\ LoadIdle /\ PipeIdle /\ WindowIdle /\ RatingIdle /\ ResumeIdle

ScrapeSpecInit == ScrapeInit /\ OthersIdleForScrape

ScrapeSpecNext ==
    \/ ScrapeStart /\ UNCHANGED <<retryVars, planVars, saveVars, normVars, snapVars, loadVars, pipeVars, windowVars, ratingVars, resumeVars>>
    \/ PlanListDone /\ UNCHANGED <<retryVars, planVars, saveVars, normVars, snapVars, loadVars, pipeVars, windowVars, ratingVars, resumeVars>>
    \/ PlanWindowExhausted /\ UNCHANGED <<retryVars, planVars, saveVars, normVars, snapVars, loadVars, pipeVars, windowVars, ratingVars, resumeVars>>
    \/ PlanFetchNothing /\ UNCHANGED <<retryVars, planVars, saveVars, normVars, snapVars, loadVars, pipeVars, windowVars, ratingVars, resumeVars>>
    \/ (\E n \in 1..PAGE_SIZE, total \in TotalDatas : PlanFetchRows(n, total))
          /\ UNCHANGED <<retryVars, planVars, saveVars, normVars, snapVars, loadVars, pipeVars, windowVars, ratingVars, resumeVars>>
    \/ YieldNext /\ UNCHANGED <<retryVars, planVars, saveVars, normVars, snapVars, loadVars, pipeVars, windowVars, ratingVars, resumeVars>>
    \/ PlanPageComplete /\ UNCHANGED <<retryVars, planVars, saveVars, normVars, snapVars, loadVars, pipeVars, windowVars, ratingVars, resumeVars>>
    \/ CursorWindowExhausted /\ UNCHANGED <<retryVars, planVars, saveVars, normVars, snapVars, loadVars, pipeVars, windowVars, ratingVars, resumeVars>>
    \/ CursorFetchFailsSkip /\ UNCHANGED <<retryVars, planVars, saveVars, normVars, snapVars, loadVars, pipeVars, windowVars, ratingVars, resumeVars>>
    \/ CursorFetchFailsBreak /\ UNCHANGED <<retryVars, planVars, saveVars, normVars, snapVars, loadVars, pipeVars, windowVars, ratingVars, resumeVars>>
    \/ CursorFetchEmpty /\ UNCHANGED <<retryVars, planVars, saveVars, normVars, snapVars, loadVars, pipeVars, windowVars, ratingVars, resumeVars>>
    \/ (\E n \in 1..PAGE_SIZE, total \in TotalDatas : CursorFetchRows(n, total))
          /\ UNCHANGED <<retryVars, planVars, saveVars, normVars, snapVars, loadVars, pipeVars, windowVars, ratingVars, resumeVars>>
    \/ CursorPageComplete /\ UNCHANGED <<retryVars, planVars, saveVars, normVars, snapVars, loadVars, pipeVars, windowVars, ratingVars, resumeVars>>
    \/ ConsumerStops /\ UNCHANGED <<retryVars, planVars, saveVars, normVars, snapVars, loadVars, pipeVars, windowVars, ratingVars, resumeVars>>
    \/ ConnectFails /\ UNCHANGED <<retryVars, planVars, saveVars, normVars, snapVars, loadVars, pipeVars, windowVars, ratingVars, resumeVars>>
    \/ NextRun /\ UNCHANGED <<retryVars, planVars, saveVars, normVars, snapVars, loadVars, pipeVars, windowVars, ratingVars, resumeVars>>

SpecScrape == ScrapeSpecInit /\ [][ScrapeSpecNext]_vars

OthersIdleForNorm == RetryIdle /\ PlanIdle /\ SaveIdle /\ ScrapeIdle /\ SnapIdle /\ LoadIdle /\ PipeIdle /\ WindowIdle /\ RatingIdle /\ ResumeIdle

NormSpecInit == NormInit /\ OthersIdleForNorm

NormSpecNext ==
    \/ NormalizeRegular /\ UNCHANGED <<retryVars, planVars, saveVars, scrapeVars, snapVars, loadVars, pipeVars, windowVars, ratingVars, resumeVars>>
    \/ NormalizeAuction /\ UNCHANGED <<retryVars, planVars, saveVars, scrapeVars, snapVars, loadVars, pipeVars, windowVars, ratingVars, resumeVars>>

SpecNorm == NormSpecInit /\ [][NormSpecNext]_vars

OthersIdleForSnap == RetryIdle /\ PlanIdle /\ SaveIdle /\ ScrapeIdle /\ NormIdle /\ LoadIdle /\ PipeIdle /\ WindowIdle /\ RatingIdle /\ ResumeIdle

SnapSpecInit == SnapInit /\ OthersIdleForSnap

SnapSpecNext ==
    \/ SnapshotStart /\ UNCHANGED <<retryVars, planVars, saveVars, scrapeVars, normVars, loadVars, pipeVars, windowVars, ratingVars, resumeVars>>
    \/ (\E total_records \in SnapTotals : CollectCategory(total_records))
          /\ UNCHANGED <<retryVars, planVars, saveVars, scrapeVars, normVars, loadVars, pipeVars, windowVars, ratingVars, resumeVars>>
    \/ CollectFails /\ UNCHANGED <<retryVars, planVars, saveVars, scrapeVars, normVars, loadVars, pipeVars, windowVars, ratingVars, resumeVars>>
    \/ PersistSnapshots /\ UNCHANGED <<retryVars, planVars, saveVars, scrapeVars, normVars, loadVars, pipeVars, windowVars, ratingVars, resumeVars>>
    \/ PersistFails /\ UNCHANGED <<retryVars, planVars, saveVars, scrapeVars, normVars, loadVars, pipeVars, windowVars, ratingVars, resumeVars>>
    \/ WritePlanFile /\ UNCHANGED <<retryVars, planVars, saveVars, scrapeVars, normVars, loadVars, pipeVars, windowVars, ratingVars, resumeVars>>

SpecSnap == SnapSpecInit /\ [][SnapSpecNext]_vars

OthersIdleForLoad ==
    RetryIdle /\ PlanIdle /\ SaveIdle /\ ScrapeIdle /\ NormIdle /\ SnapIdle /\ PipeIdle /\ WindowIdle /\ RatingIdle /\ ResumeIdle

LoadSpecInit == LoadInit /\ OthersIdleForLoad

LoadSpecNext ==
    \/ LoadProgress
          /\ UNCHANGED <<retryVars, planVars, saveVars, scrapeVars, normVars, snapVars,
                         pipeVars, windowVars, ratingVars, resumeVars>>

SpecLoad == LoadSpecInit /\ [][LoadSpecNext]_vars

OthersIdleForPipe ==
    RetryIdle /\ PlanIdle /\ SaveIdle /\ ScrapeIdle /\ NormIdle /\ SnapIdle /\ LoadIdle /\ WindowIdle /\ RatingIdle /\ ResumeIdle

PipeSpecInit == PipeInit /\ OthersIdleForPipe

PipeSpecNext ==
    \/ (\E n \in 1..PAGE_SIZE : PipeFetchRows(n)) /\ UNCHANGED <<retryVars, planVars, saveVars, scrapeVars, normVars, snapVars, loadVars, windowVars, ratingVars, resumeVars>>
    \/ PipeFetchEmpty /\ UNCHANGED <<retryVars, planVars, saveVars, scrapeVars, normVars, snapVars, loadVars, windowVars, ratingVars, resumeVars>>
    \/ PipeFetchFails /\ UNCHANGED <<retryVars, planVars, saveVars, scrapeVars, normVars, snapVars, loadVars, windowVars, ratingVars, resumeVars>>
    \/ PipeUpsert /\ UNCHANGED <<retryVars, planVars, saveVars, scrapeVars, normVars, snapVars, loadVars, windowVars, ratingVars, resumeVars>>
    \/ PipeOperatorContinues /\ UNCHANGED <<retryVars, planVars, saveVars, scrapeVars, normVars, snapVars, loadVars, windowVars, ratingVars, resumeVars>>
    \/ PipeOperatorAborts /\ UNCHANGED <<retryVars, planVars, saveVars, scrapeVars, normVars, snapVars, loadVars, windowVars, ratingVars, resumeVars>>
    \/ PipePageComplete /\ UNCHANGED <<retryVars, planVars, saveVars, scrapeVars, normVars, snapVars, loadVars, windowVars, ratingVars, resumeVars>>
    \/ PipeFinalCommit /\ UNCHANGED <<retryVars, planVars, saveVars, scrapeVars, normVars, snapVars, loadVars, windowVars, ratingVars, resumeVars>>
    \/ PipeCrash /\ UNCHANGED <<retryVars, planVars, saveVars, scrapeVars, normVars, snapVars, loadVars, windowVars, ratingVars, resumeVars>>
    \/ PipeRestart /\ UNCHANGED <<retryVars, planVars, saveVars, scrapeVars, normVars, snapVars, loadVars, windowVars, ratingVars, resumeVars>>

SpecPipe == PipeSpecInit /\ [][PipeSpecNext]_vars

OthersIdleForWindow ==
    RetryIdle /\ PlanIdle /\ SaveIdle /\ ScrapeIdle /\ NormIdle /\ SnapIdle /\ LoadIdle /\ PipeIdle /\ RatingIdle /\ ResumeIdle

WindowSpecInit == WindowInit /\ OthersIdleForWindow

WindowSpecNext ==
    \/ WindowNew /\ UNCHANGED <<retryVars, planVars, saveVars, scrapeVars, normVars, snapVars, loadVars, pipeVars, ratingVars, resumeVars>>
    \/ WindowProbe /\ UNCHANGED <<retryVars, planVars, saveVars, scrapeVars, normVars, snapVars, loadVars, pipeVars, ratingVars, resumeVars>>
    \/ WindowMark /\ UNCHANGED <<retryVars, planVars, saveVars, scrapeVars, normVars, snapVars, loadVars, pipeVars, ratingVars, resumeVars>>

SpecWindow == WindowSpecInit /\ [][WindowSpecNext]_vars

OthersIdleForRating ==
    RetryIdle /\ PlanIdle /\ SaveIdle /\ ScrapeIdle /\ NormIdle /\ SnapIdle /\ LoadIdle /\ PipeIdle /\ WindowIdle /\ ResumeIdle

RatingSpecInit == RatingInit /\ OthersIdleForRating

RatingSpecNext ==
    \/ CalculateRating /\ UNCHANGED <<retryVars, planVars, saveVars, scrapeVars, normVars, snapVars, loadVars, pipeVars, windowVars, resumeVars>>

SpecRating == RatingSpecInit /\ [][RatingSpecNext]_vars

OthersIdleForResume ==
    RetryIdle /\ PlanIdle /\ SaveIdle /\ ScrapeIdle /\ NormIdle /\ SnapIdle /\ LoadIdle /\ PipeIdle /\ WindowIdle /\ RatingIdle

ResumeSpecInit == ResumeInit /\ OthersIdleForResume

ResumeSpecNext ==
    \/ ResumePlanNothing /\ UNCHANGED <<retryVars, planVars, saveVars, scrapeVars, normVars, snapVars, loadVars, pipeVars, windowVars, ratingVars>>
    \/ ResumePlanComplete /\ UNCHANGED <<retryVars, planVars, saveVars, scrapeVars, normVars, snapVars, loadVars, pipeVars, windowVars, ratingVars>>
    \/ ResumePlanDone /\ UNCHANGED <<retryVars, planVars, saveVars, scrapeVars, normVars, snapVars, loadVars, pipeVars, windowVars, ratingVars>>
    \/ ResumeCursorStart /\ UNCHANGED <<retryVars, planVars, saveVars, scrapeVars, normVars, snapVars, loadVars, pipeVars, windowVars, ratingVars>>

SpecResume == ResumeSpecInit /\ [][ResumeSpecNext]_vars

TerminationSpecInit == TerminationInit /\ OthersIdleForScrape

\* one run whose consumer pulls every listing
TerminationSpecNext ==
    \/ ScrapeStart /\ UNCHANGED <<retryVars, planVars, saveVars, normVars, snapVars, loadVars, pipeVars, windowVars, ratingVars, resumeVars>>
    \/ PlanListDone /\ UNCHANGED <<retryVars, planVars, saveVars, normVars, snapVars, loadVars, pipeVars, windowVars, ratingVars, resumeVars>>
    \/ PlanWindowExhausted /\ UNCHANGED <<retryVars, planVars, saveVars, normVars, snapVars, loadVars, pipeVars, windowVars, ratingVars, resumeVars>>
    \/ PlanFetchNothing /\ UNCHANGED <<retryVars, planVars, saveVars, normVars, snapVars, loadVars, pipeVars, windowVars, ratingVars, resumeVars>>
    \/ (\E n \in 1..PAGE_SIZE, total \in TotalDatas : PlanFetchRows(n, total))
          /\ UNCHANGED <<retryVars, planVars, saveVars, normVars, snapVars, loadVars, pipeVars, windowVars, ratingVars, resumeVars>>
    \/ YieldNext /\ UNCHANGED <<retryVars, planVars, saveVars, normVars, snapVars, loadVars, pipeVars, windowVars, ratingVars, resumeVars>>
    \/ PlanPageComplete /\ UNCHANGED <<retryVars, planVars, saveVars, normVars, snapVars, loadVars, pipeVars, windowVars, ratingVars, resumeVars>>
    \/ CursorWindowExhausted /\ UNCHANGED <<retryVars, planVars, saveVars, normVars, snapVars, loadVars, pipeVars, windowVars, ratingVars, resumeVars>>
    \/ CursorFetchFailsSkip /\ UNCHANGED <<retryVars, planVars, saveVars, normVars, snapVars, loadVars, pipeVars, windowVars, ratingVars, resumeVars>>
    \/ CursorFetchFailsBreak /\ UNCHANGED <<retryVars, planVars, saveVars, normVars, snapVars, loadVars, pipeVars, windowVars, ratingVars, resumeVars>>
    \/ CursorFetchEmpty /\ UNCHANGED <<retryVars, planVars, saveVars, normVars, snapVars, loadVars, pipeVars, windowVars, ratingVars, resumeVars>>
    \/ (\E n \in 1..PAGE_SIZE, total \in TotalDatas : CursorFetchRows(n, total))
          /\ UNCHANGED <<retryVars, planVars, saveVars, normVars, snapVars, loadVars, pipeVars, windowVars, ratingVars, resumeVars>>
    \/ CursorPageComplete /\ UNCHANGED <<retryVars, planVars, saveVars, normVars, snapVars, loadVars, pipeVars, windowVars, ratingVars, resumeVars>>

\* the consumer asks for the next listing until the generator ends, and
\* every _post_with_retry call returns or raises
SpecTermination ==
    TerminationSpecInit /\ [][TerminationSpecNext]_vars /\ WF_vars(TerminationSpecNext)

(***************************************************************************)
(*                     Claims on _post_with_retry                          *)
(***************************************************************************)
AllAttemptsGot(status) == \A i \in 1..Len(rRequests) : rRequests[i] = Http(status)

\* C1: a call in which every attempt receives HTTP 503 issues exactly
\* MAX_RETRIES requests and then raises (it neither returns nor stops
\* earlier); no call ever issues more than MAX_RETRIES requests.
C1_RetryBound ==
    /\ Len(rRequests) <= MAX_RETRIES
    /\ (AllAttemptsGot(503) /\ rPc \in {"returned", "raised"})
          => (rPc = "raised" /\ Len(rRequests) = MAX_RETRIES)
    /\ (AllAttemptsGot(503) /\ rPc = "call") => Len(rRequests) < MAX_RETRIES

C1_Witness ==
    /\ rPc = "raised"
    /\ Len(rRequests) = MAX_RETRIES
    /\ AllAttemptsGot(503)

\* C2: a call whose first attempt receives HTTP 404 raises immediately:
\* exactly one request is issued and no backoff sleep occurs.
C2_NonRetryableRaisesImmediately ==
    (Len(rRequests) >= 1 /\ rRequests[1] = Http(404))
        => (rPc = "raised" /\ Len(rRequests) = 1 /\ rSleeps = <<>>)

\* the i-th attempt failed: the transport raised, or raise_for_status did
AttemptFailed(i) ==
    \/ rRequests[i].kind \in NetworkErrors
    \/ RaisesHttpError(rRequests[i].status)

\* the i-th attempt failed with a connection error, a timeout or an HTTP
\* status of RETRYABLE_STATUS_CODES
AttemptRetryable(i) ==
    \/ rRequests[i].kind \in NetworkErrors
    \/ rRequests[i].status \in RETRYABLE_STATUS_CODES

\* C28: an attempt that fails with a connection error or a timeout (or a
\* retryable HTTP status) while fewer than MAX_RETRIES attempts were made is
\* followed by another attempt; no request follows a successful one, which
\* ends the call with a return; the MAX_RETRIES-th failed attempt ends the
\* call with the exception.
C28_NetworkErrorsRetried ==
    LET n == Len(rRequests)
    IN  /\ (n >= 1 /\ AttemptRetryable(n) /\ n < MAX_RETRIES) =>
              (rPc = "call" /\ attempt = n + 1)
        /\ \A i \in 1..(n - 1) : AttemptFailed(i)
        /\ rPc = "returned" <=> (n >= 1 /\ ~AttemptFailed(n))
        /\ (n = MAX_RETRIES /\ AttemptFailed(n)) => rPc = "raised"

\* a connection error, a 503 and a timeout, then the response that is returned
C28_Witness ==
    /\ rPc = "returned"
    /\ Len(rRequests) = 4
    /\ rRequests[1].kind = "ConnectionError"
    /\ rRequests[2] = Http(503)
    /\ rRequests[3].kind = "Timeout"
    /\ rRequests[4] = Http(200)

\* C29: the k-th sleep of a call lasts RETRY_BACKOFF^(k-1); every failed
\* attempt but the last one of the call is followed by one sleep, so a call
\* that ends after a attempts has slept a - 1 times.
C29_BackoffSchedule ==
    /\ \A k \in 1..Len(rSleeps) : rSleeps[k] = RETRY_BACKOFF ^ (k - 1)
    /\ Len(rSleeps) <= MAX_RETRIES - 1
    /\ rPc \in {"returned", "raised"} => Len(rSleeps) = Len(rRequests) - 1
    /\ rPc = "call" => Len(rSleeps) = Len(rRequests)

\* five failed attempts: sleeps of 1, 2, 4 and 8, none after the fifth
C29_Witness ==
    /\ rPc = "raised"
    /\ Len(rRequests) = 5
    /\ rSleeps = <<1, 2, 4, 8>>

(***************************************************************************)
(*                    Claims on _compute_plan_pages                        *)
(***************************************************************************)
Range(s) == {s[i] : i \in 1..Len(s)}
StrictlyIncreasing(s) == \A i \in 1..(Len(s) - 1) : s[i] < s[i + 1]
PlanComputed == pPc \in {"computed", "built"}
HeadSet == 1..Min(snap.page_count, HEAD_REFRESH_PAGES)
TailSet == (snap.page_count - Min(snap.page_count, TAIL_RECHECK_PAGES) + 1)..snap.page_count
Example(prev, cur, head, tail) ==
    /\ previous = prev
    /\ snap.page_count = cur
    /\ HEAD_REFRESH_PAGES = head
    /\ TAIL_RECHECK_PAGES = tail

\* C6: growth. With a previous snapshot and current page_count > previous
\* page_count the plan holds the head pages, the tail pages and every page
\* of previous+1..current, and nothing else; previous=5, current=8, head=2,
\* tail=3 gives exactly [1,2,6,7,8].
C6_DeltaPlanGrowth ==
    (PlanComputed /\ previous # NoSnapshot /\ snap.page_count > previous)
        => /\ Range(planPages) =
                  HeadSet \cup TailSet \cup ((previous + 1)..snap.page_count)
           /\ Example(5, 8, 2, 3) => planPages = <<1, 2, 6, 7, 8>>

C6_Witness == PlanComputed /\ Example(5, 8, 2, 3) /\ planPages = <<1, 2, 6, 7, 8>>

\* C7: shrinkage. With a previous snapshot and previous page_count > current
\* page_count the plan holds the head pages, the tail pages and the last
\* min(current, 2*tail) pages, and nothing else; previous=10, current=4,
\* head=2, tail=3 gives exactly [1,2,3,4].
C7_DeltaPlanShrinkage ==
    (PlanComputed /\ previous # NoSnapshot /\ previous > snap.page_count)
        => /\ Range(planPages) =
                  HeadSet \cup TailSet
                      \cup ((snap.page_count
                               - Min(snap.page_count, 2 * TAIL_RECHECK_PAGES) + 1)
                            ..snap.page_count)
           /\ Example(10, 4, 2, 3) => planPages = <<1, 2, 3, 4>>

C7_Witness == PlanComputed /\ Example(10, 4, 2, 3) /\ planPages = <<1, 2, 3, 4>>

\* C8: no change detected. Without a previous snapshot, or with a previous
\* page_count equal to the current one, the plan is exactly the pages
\* 1..min(current, head) and the last min(current, tail) pages, in increasing
\* order; no history, current=5, head=2, tail=3 gives [1,2,3,4,5].
C8_DeltaPlanNoChange ==
    (PlanComputed /\ (previous = NoSnapshot \/ previous = snap.page_count))
        => /\ Range(planPages) = HeadSet \cup TailSet
           /\ StrictlyIncreasing(planPages)
           /\ Example(NoSnapshot, 5, 2, 3) => planPages = <<1, 2, 3, 4, 5>>

C8_Witness ==
    PlanComputed /\ Example(NoSnapshot, 5, 2, 3) /\ planPages = <<1, 2, 3, 4, 5>>

\* C9: for every current and previous snapshot and every head/tail setting
\* >= 0 the page list is strictly increasing and holds only pages p with
\* 1 <= p <= current page_count; it is empty when the current page_count is
\* 0, and then the built plan has no entry for the category (no label under
\* "regular", an empty "auction" list).
C9_PlanPagesWellFormed ==
    /\ PlanComputed =>
          /\ StrictlyIncreasing(planPages)
          /\ \A i \in 1..Len(planPages) :
                 planPages[i] >= 1 /\ planPages[i] <= snap.page_count
          /\ snap.page_count = 0 => planPages = <<>>
    /\ (pPc = "built" /\ snap.page_count = 0) =>
          /\ snap.category \notin RegularPlanLabels(plan)
          /\ snap.feed_type = "auction" => plan.auction = <<>>
    /\ pPc = "built" =>
          \A i \in 1..Len(plan.regular) : plan.regular[i].pages # <<>>

\* a page selected by the head, tail and shrink rules at once appears once
C9_Witness ==
    /\ pPc = "built"
    /\ Example(10, 4, 2, 3)
    /\ planPages = <<1, 2, 3, 4>>
    /\ snap.feed_type = "regular"
    /\ plan.regular = <<[label |-> snap.category, pages |-> planPages]>>

(***************************************************************************)
(*                       Claims on save_to_cloud                           *)
(***************************************************************************)
\* the listing at position j of this run has a url that an earlier listing
\* of the run had
IsRepeat(j) ==
    /\ consumed[j].url # NoUrl
    /\ \E i \in 1..(j - 1) : consumed[i].url = consumed[j].url
Repeats == {j \in 1..Len(consumed) : IsRepeat(j)}
FirstOccurrences == {j \in 1..Len(consumed) : consumed[j].url # NoUrl /\ ~IsRepeat(j)}
FirstListing(url) ==
    consumed[CHOOSE j \in FirstOccurrences : consumed[j].url = url]
RepeatedUrls == {consumed[j].url : j \in Repeats}

\* In one run every listing whose url an earlier listing of the run had is
\* counted in duplicates_skipped and executes no statement, and the row of
\* its url stays as the first listing's statement left it.
DuplicatesNeverReachStorage ==
    sPc # "idle" =>
       /\ duplicates_skipped = Cardinality(Repeats)
       /\ dbExecutes <= Cardinality(FirstOccurrences)
       /\ sPc # "failed" =>
             /\ dbExecutes = Cardinality(FirstOccurrences)
             /\ \A u \in RepeatedUrls :
                    /\ HasUrl(txn, u)
                    /\ RowOf(txn, u) = firstRow[u]
       /\ sPc = "done" => store = txn

\* C3: in one run a listing whose url an earlier listing of the run had is
\* counted in duplicates_skipped and causes no insert or update, and the
\* stored row of that url holds the payload of the first listing with the
\* url: the values of the SET-list columns and of the insert-only columns.
C3_DuplicateKeepsFirstPayload ==
    /\ DuplicatesNeverReachStorage
    /\ sPc \in {"loop", "confirm", "done"} =>
          \A u \in RepeatedUrls :
             /\ RowOf(txn, u).price = FirstListing(u).price
             /\ RowOf(txn, u).size_sqm = FirstListing(u).size

UniqueUrls(rows) ==
    \A i, j \in 1..Len(rows) : rows[i].url = rows[j].url => i = j

\* C5: after any sequence of runs (repeated and overlapping urls, aborted
\* runs, failed runs) the table holds at most one row per url, committed or
\* inside the open transaction.
C5_OneRowPerUrl == UniqueUrls(store) /\ UniqueUrls(txn)

\* a second run has updated the row of a url an earlier run inserted
C5_Witness ==
    /\ runs = 2
    /\ sPc = "done"
    /\ feedMode = "fresh"
    /\ processed_count = 2
    /\ new_total = 1
    /\ Len(store) = 2

C10_PageWindowBound ==
    target # NoTarget =>
       /\ markCount <= target
       /\ processed = markCount
       /\ ~lateRequest
       /\ markCount = target => ~allow_next(target, processed)

\* N = 2: two successful pages, two requests, and the run has ended
C10_Witness ==
    /\ gPc = "finished"
    /\ gRuns = 0
    /\ target = 2
    /\ markCount = 2
    /\ totalRequests = 2

\* C11: in a run with window target N > 0 at most N distinct feed pages are
\* requested, whatever the source of the pages and the outcome of the fetches.
C11_RequestedPagesWithinWindow ==
    target # NoTarget => Cardinality(requested) <= target

\* C12: the persisted cursor of every feed never decreases, within a run
\* (completions and skips) and across runs that reload the progress file;
\* neither does the cursor in memory while a run lasts.
C12_CursorNeverDecreases ==
    [][\A f \in Feeds :
          /\ progressFile'[f] >= progressFile[f]
          /\ (gPc # "idle" /\ gPc' # "idle") => progress_state'[f] >= progress_state[f]
          /\ (gPc = "idle" /\ gPc' \notin {"idle", "noconnection"}) => progress_state'[f] = progressFile[f]]_vars

\* a second run has completed page 2 of the first category in cursor mode
C12_Witness ==
    /\ gRuns = 1
    /\ gMode = "cursor"
    /\ feed = 1
    /\ markCount = 1
    /\ lastRequest = [feed |-> 1, page |-> 2]
    /\ progressFile[1] = 2

\* the step completes the page being consumed: it was fetched with rows and
\* every row was yielded
CompletionOf(f) ==
    /\ f = feed
    /\ gPc = "yield"
    /\ yieldLeft = 0
    /\ lastOutcome = "rows"
    /\ lastRequest = [feed |-> feed, page |-> page_number]
    /\ progressFile'[f] = Max(page_number, progressFile[f])
    /\ progress_state'[f] = progressFile'[f]

\* the step skips a page whose fetch failed
SkipOf(f) ==
    /\ f = feed
    /\ gPc = "cursor"
    /\ SKIP_FAILED_PAGES
    /\ lastOutcome' = "failed"
    /\ lastRequest' = [feed |-> feed, page |-> page_number]
    /\ progressFile'[f] = page_number

\* C13 as stated: the cursor of a category is set to page p, in memory and in
\* the progress file, only after p was fetched successfully and all of its
\* listings were yielded.
C13_CursorSetOnlyAfterFullYield ==
    [][\A f \in Feeds : progressFile'[f] # progressFile[f] => CompletionOf(f)]_vars

\* C13 amended: the cursor is moved by the completion of a page that was
\* fetched successfully and fully yielded, or, with skipping enabled, to a
\* page whose fetch failed; in cursor mode, while page p is being consumed
\* and after the run is interrupted there, the cursor is p - 1 and the next
\* scan of the category starts at p.
C13_CursorSetAfterFullYieldOrSkip ==
    /\ [][\A f \in Feeds :
             progressFile'[f] # progressFile[f] => (CompletionOf(f) \/ SkipOf(f))]_vars
    /\ []((gMode = "cursor" /\ gPc \in {"yield", "abandoned"}) =>
             /\ progressFile[feed] = page_number - 1
             /\ CursorStart(progressFile, feed) = page_number)

\* a run was interrupted while page 2 was being consumed, after page 1 was
\* completed
C13_Witness ==
    /\ gPc = "abandoned"
    /\ gMode = "cursor"
    /\ page_number = 2
    /\ markCount = 1
    /\ progressFile[feed] = 1

\* C14: once a run that loaded a plan has ended, drained or abandoned by its
\* consumer (operator abort, storage error), the plan file is gone.
C14_PlanFileSingleUse ==
    (gPc \in {"finished", "abandoned"} /\ gPlan.present) => ~planFile.present

\* the step is a failed fetch in cursor mode with skipping enabled
FailedCursorFetch ==
    /\ gPc = "cursor"
    /\ SKIP_FAILED_PAGES
    /\ totalRequests' = totalRequests + 1
    /\ lastOutcome' = "failed"

\* C20: in cursor mode with skipping enabled a failure that follows fewer
\* than MAX_SKIP_CHAIN consecutive failures moves the cursor to the failed
\* page and goes on with the next page; the failure after MAX_SKIP_CHAIN
\* consecutive ones leaves the cursor and ends the category for the run (the
\* next category starts, or the auction feed ends); a completed page after
\* which the scan goes on resets the count.
C20_SkipChain ==
    [][/\ FailedCursorFetch =>
            IF consecutive_failures < MAX_SKIP_CHAIN
              THEN /\ progressFile' = [progressFile EXCEPT ![feed] = page_number]
                   /\ progress_state' = progressFile'
                   /\ page_number' = page_number + 1
                   /\ consecutive_failures' = consecutive_failures + 1
                   /\ feed' = feed
                   /\ gPc' = "cursor"
              ELSE /\ progressFile' = progressFile
                   /\ progress_state' = progress_state
                   /\ IF feed < Auction THEN feed' = feed + 1 ELSE gPc' = "finished"
       /\ (gPc = "yield" /\ gMode = "cursor" /\ markCount' = markCount + 1
              /\ gPc' = "cursor")
             => consecutive_failures' = 0]_vars

\* three pages of the first category were skipped and the fourth failure
\* ended the category
C20_Witness ==
    /\ SKIP_FAILED_PAGES
    /\ gRuns = 0
    /\ lastOutcome = "failed"
    /\ lastRequest = [feed |-> 1, page |-> 4]
    /\ progressFile[1] = 3
    /\ feed = 2

\* the step issues a feed request from a cursor scan
CursorRequest ==
    /\ gPc = "cursor"
    /\ totalRequests' = totalRequests + 1

\* the step issues a feed request for a planned page
PlanRequest ==
    /\ gPc = "plan"
    /\ totalRequests' = totalRequests + 1

\* the step leaves the category: the next category (or the auction feed)
\* starts, or the run's generator ends
LeavesCategory ==
    \/ feed' > feed
    \/ (feed = Auction /\ gPc' = "finished")

\* C21: with skipping disabled, a failed fetch of a cursor scan ends the
\* category for the run and changes neither the cursor, nor the progress
\* file, nor the window count; the page a later scan of the category starts
\* at is the failed page.
C21_FailureWithoutSkipStops ==
    [][(CursorRequest /\ ~SKIP_FAILED_PAGES /\ lastOutcome' = "failed") =>
          /\ LeavesCategory
          /\ progress_state' = progress_state
          /\ progressFile' = progressFile
          /\ processed' = processed
          /\ markCount' = markCount
          /\ CursorStart(progressFile', feed) = lastRequest'.page]_vars

\* with skipping disabled, page 2 of the first category failed after page 1
\* was completed: the cursor is still 1 and the second category has started
C21_Witness ==
    /\ ~SKIP_FAILED_PAGES
    /\ gRuns = 0
    /\ lastOutcome = "failed"
    /\ lastRequest = [feed |-> 1, page |-> 2]
    /\ progressFile[1] = 1
    /\ markCount = 1
    /\ feed = 2

\* C22: a page of a category that was skipped after a failed fetch, the
\* cursor having moved to it, is not requested by a cursor scan of that
\* category again, in the run of the skip or in any later run.
C22_SkippedPageNeverRequestedAgain ==
    /\ [][CursorRequest => [feed |-> feed, page |-> page_number] \notin skipped]_vars
    /\ [](\A r \in skipped : progressFile[r.feed] >= r.page)

\* page 1 of the first category was skipped in the first run; the second
\* run's scan of the category has requested page 2
C22_Witness ==
    /\ gRuns = 1
    /\ [feed |-> 1, page |-> 1] \in skipped
    /\ gMode = "cursor"
    /\ lastRequest = [feed |-> 1, page |-> 2]
    /\ requested = {[feed |-> 1, page |-> 2]}

\* C23: a cursor scan of a category starts at the persisted cursor + 1 (page
\* 1 when the cursor is 0), requests the page after the category's cursor
\* each time, and goes from a page to the next one only; so no page at or
\* below the cursor loaded at the start of the run is requested.
C23_CursorScanConsecutive ==
    /\ [](gPc = "cursor" =>
             /\ page_number = progress_state[feed] + 1
             /\ progress_state[feed] >= 0
             /\ progressFile[feed] = progress_state[feed])
    /\ [][/\ (gPc' = "cursor" /\ (gPc = "idle" \/ feed' # feed)) =>
                page_number' = progressFile[feed'] + 1
          /\ CursorRequest =>
                /\ lastRequest' = [feed |-> feed, page |-> page_number]
                /\ lastRequest'.page > progressFile[feed]
          /\ (gPc # "idle" /\ gPc' # "idle" /\ feed' = feed /\ gMode = "cursor"
                 /\ page_number' # page_number) =>
                /\ page_number' = page_number + 1
                /\ lastRequest = [feed |-> feed, page |-> page_number]
                   \/ lastRequest' = [feed |-> feed, page |-> page_number]]_vars

\* the second run's scan of the first category started at page 2, which had
\* rows, and has gone on to page 3
C23_Witness ==
    /\ gRuns = 1
    /\ gMode = "cursor"
    /\ feed = 1
    /\ requested = {[feed |-> 1, page |-> 2], [feed |-> 1, page |-> 3]}
    /\ lastRequest = [feed |-> 1, page |-> 3]
    /\ markCount = 1
    /\ progressFile[1] >= 2

\* C24: a cursor scan of a category ends when a fetched page has no rows,
\* the cursor staying as it is; after a page with rows is yielded and
\* recorded, it ends if page_number * PAGE_SIZE >= totalData for a non-zero
\* totalData or if the page has fewer than PAGE_SIZE rows; a category that
\* was left is not requested again in the run.
C24_CursorScanDone ==
    [][/\ (CursorRequest /\ lastOutcome' = "empty") =>
             /\ LeavesCategory
             /\ progress_state' = progress_state
             /\ progressFile' = progressFile
       /\ (gPc = "yield" /\ gMode = "cursor" /\ markCount' = markCount + 1
              /\ ((total_data # 0 /\ page_number * PAGE_SIZE >= total_data)
                     \/ rowsLen < PAGE_SIZE)) =>
             /\ LeavesCategory
             /\ progress_state'[feed] = page_number
             /\ progressFile'[feed] = page_number
       /\ (gPc # "idle" /\ gPc' # "idle") => feed' >= feed
       /\ (totalRequests' = totalRequests + 1) => lastRequest'.feed = feed]_vars

\* without a window, the first category was left after its page 1 was
\* yielded and recorded, the only request of the run
C24_Witness ==
    /\ gRuns = 0
    /\ target = NoTarget
    /\ gMode = "cursor"
    /\ feed = 2
    /\ totalRequests = 1
    /\ lastRequest = [feed |-> 1, page |-> 1]
    /\ lastOutcome = "rows"
    /\ markCount = 1
    /\ progressFile[1] = 1

\* the entries of a list
Entries(list) == {list[i] : i \in 1..Len(list)}

\* C25: the pages requested for a category that has pages in the plan are
\* positive entries of the plan's list for it, in strictly increasing order
\* (hence each at most once), whatever the order and repeats of the list; a
\* planned page with rows, once yielded, moves the cursor to max(page,
\* cursor) and counts once in the window.
C25_PlanPagesSortedOnce ==
    [][/\ PlanRequest =>
             /\ lastRequest'.feed = feed
             /\ lastRequest'.page \in Entries(gPlan.pages[feed])
             /\ lastRequest'.page > 0
             /\ lastRequest.feed = feed => lastRequest'.page > lastRequest.page
       /\ (gPc = "yield" /\ gMode = "plan" /\ gPc' # "yield" /\ gPc' # "abandoned") =>
             /\ lastOutcome = "rows"
             /\ markCount' = markCount + 1
             /\ processed' = mark_complete(target, processed)
             /\ progressFile'[feed] = Max(lastRequest.page, progressFile[feed])
             /\ progress_state' = progressFile'
       /\ (gMode = "plan" /\ gPc \in {"plan", "yield"}) =>
             (markCount' # markCount => gPc = "yield")]_vars

\* the plan lists 2, 0, 1, 2 for the first category: pages 1 and 2 were
\* requested in that order, both had rows, and the list is used up
C25_Witness ==
    /\ gRuns = 0
    /\ gPlan.present
    /\ gPlan.pages[1] = <<2, 0, 1, 2>>
    /\ target = NoTarget
    /\ totalRequests = 2
    /\ markCount = 2
    /\ lastRequest = [feed |-> 1, page |-> 2]
    /\ progressFile[1] = 2
    /\ gPc = "plan"
    /\ feed = 1
    /\ plannedRest = <<>>

C27_RequestsInFeedOrder ==
    [][(totalRequests' = totalRequests + 1 /\ lastRequest # NoRequest) =>
          /\ lastRequest'.feed >= lastRequest.feed
          /\ lastRequest'.feed = lastRequest.feed =>
                lastRequest'.page > lastRequest.page]_vars

\* requests for both regular categories, then one for the auction feed
C27_Witness ==
    /\ gRuns = 0
    /\ totalRequests >= 3
    /\ {[feed |-> 1, page |-> 1], [feed |-> 2, page |-> 1]} \subseteq requested
    /\ lastRequest = [feed |-> Auction, page |-> 1]

\* C15: the operator is asked only in a state where the batch of BATCH_SIZE
\* fresh inserts is committed, and is asked as soon as the batch is full; if
\* the operator aborts, the run pulls no further listing, the committed rows
\* stay and the run ends as done, not as failed.
C15_BatchCommitThenAsk ==
    /\ [](/\ sPc = "confirm" => (store = txn /\ batch_inserted = BATCH_SIZE)
          /\ sPc = "loop" => batch_inserted < BATCH_SIZE
          /\ aborted => sPc = "done")
    /\ [][/\ (sPc = "confirm" /\ aborted') =>
                (consumed' = consumed /\ store' = store /\ sPc' = "done")
          /\ aborted => (consumed' = consumed \/ runs' = runs + 1)]_vars

\* the operator aborted at the first checkpoint: two committed rows
C15_Witness ==
    /\ aborted
    /\ sPc = "done"
    /\ batch_number = 1
    /\ new_total = BATCH_SIZE
    /\ Len(store) = BATCH_SIZE
    /\ Len(consumed) < MaxListings

(***************************************************************************)
(*                     Claims on the normalizers                           *)
(***************************************************************************)
\* the field holds no usable number: it is missing or malformed
MissingOrMalformed(x) == x.k # "num"
NoUsablePriceSizeCoords ==
    IF nVariant = "regular"
      THEN /\ \A x \in {rawItem.sellPrice, rawItem.shockPrice, rawItem.discountPrice,
                         rawItem.usableArea, rawItem.areaMeter, rawItem.areaWa} :
                  MissingOrMalformed(x) /\ x.k # "numtext"
           /\ rawItem.map.k = "dict" =>
                 (MissingOrMalformed(rawItem.map.lat) /\ MissingOrMalformed(rawItem.map.lon))
      ELSE \A x \in {rawItem.priceSetByCommittee, rawItem.priceEstimateOfLegalOfficer,
                      rawItem.priceEstimateOfReciveorship, rawItem.area} :
                  MissingOrMalformed(x) /\ x.k # "numtext"
InBox(x, base) == x.k = "num" /\ base <= x.v /\ x.v <= base + BoxSpan

\* C16: for a raw record whose price, size and coordinate fields are missing
\* or malformed the normalizer does not raise and returns price 0, size 0
\* and coordinates inside the box [13.7, 13.8] x [100.5, 100.6].
C16_NormalizationTotal ==
    (nPc = "done" /\ NoUsablePriceSizeCoords) =>
       /\ ~listing.raised
       /\ listing.price = Num(0)
       /\ listing.size = Num(0)
       /\ InBox(listing.lat, LatBase)
       /\ InBox(listing.lon, LonBase)

(***************************************************************************)
(*                     Claims on the snapshot tool                         *)
(***************************************************************************)
\* C17: a snapshot run changes the snapshot table only by appending one row
\* per regular category and one for the auction feed, all existing rows
\* staying as they are; the previous snapshot a run uses for a pair is a
\* stored row of that pair than which no stored row of the pair has a
\* greater checked_at (none when the pair has no row).
C17_SnapshotsAppendOnly ==
    /\ [][/\ Len(snapTable') >= Len(snapTable)
          /\ \A i \in 1..Len(snapTable) : snapTable'[i] = snapTable[i]
          /\ snapTable' # snapTable =>
                /\ Len(snapTable') = Len(snapTable) + NumCat + 1
                /\ \A f \in Feeds :
                      Cardinality({i \in (Len(snapTable) + 1)..Len(snapTable') :
                                      snapTable'[i].feed = f}) = 1]_vars
    /\ [](tPc \in {"collect", "persisted", "done"} =>
             \A f \in Feeds :
                LET mine == {i \in 1..rowsAtRead : snapTable[i].feed = f}
                IN  IF mine = {} THEN previous_map[f] = 0
                    ELSE /\ previous_map[f] \in mine
                         /\ \A i \in mine :
                               snapTable[i].checked_at
                                  <= snapTable[previous_map[f]].checked_at)

\* a third run read the second run's row for the first category, newer than
\* the first run's, and appended its own rows
C17_Witness ==
    /\ snapRuns = 3
    /\ tPc = "done"
    /\ Len(snapTable) = 3 * (NumCat + 1)
    /\ previous_map[1] = NumCat + 2
    /\ snapTable[1].checked_at < snapTable[NumCat + 2].checked_at

(***************************************************************************)
(*                     Claims on load_progress_state                       *)
(***************************************************************************)
\* C18: load_progress_state never raises; for a missing file, unparseable
\* content or a JSON value that is not an object it returns the zeroed
\* default state, and every page value it returns is a non-negative integer.
C18_LoadNeverRaises ==
    lPc = "loaded" =>
       /\ loaded.escaped = ""
       /\ progressContent.k # "object" =>
             loaded = [regular |-> <<>>, auction |-> 0, escaped |-> ""]
       /\ loaded.auction \in Nat
       /\ \A i \in 1..Len(loaded.regular) : loaded.regular[i][2] \in Nat

\* a file whose first category holds a negative page, whose second holds
\* Infinity and whose auction page is text was loaded: the first page is 0
\* and the load stopped at the second
C18_Witness ==
    /\ lPc = "loaded"
    /\ progressContent.k = "object"
    /\ progressContent.regular.entries = <<<<1, JInt(-1)>>, <<2, JInf>>>>
    /\ progressContent.auction.page = JText
    /\ loaded.regular = <<<<1, 0>>>>
    /\ loaded.auction = 0

(***************************************************************************)
(*              Claims on the generator and its consumer                   *)
(***************************************************************************)
\* C19: at every point of a run, every page the progress file records as
\* completed by a successful fetch has all of its listings committed in the
\* store.
C19_ProgressCrashConsistent ==
    \A p \in PipePages :
       kCompleted[p] > 0 =>
          \A i \in 1..kCompleted[p] : ListingAt(p, i) \in kStore


(***************************************************************************)
(*                    Claims on scrape_bam, continued                      *)
(***************************************************************************)
\* C34: in plan mode a planned page whose fetch fails or returns no rows
\* changes neither the cursor, nor the progress file, nor the window count;
\* the run stays in the category's plan loop with the rest of the planned
\* pages, whatever the number of planned pages that failed before it.
C34_PlanFailureChangesNothing ==
    [][(PlanRequest /\ lastOutcome' \in {"failed", "empty"}) =>
          /\ progress_state' = progress_state
          /\ progressFile' = progressFile
          /\ planFile' = planFile
          /\ processed' = processed
          /\ markCount' = markCount
          /\ consecutive_failures' = consecutive_failures
          /\ gPc' = "plan"
          /\ feed' = feed
          /\ plannedRest' = Tail(plannedRest)]_vars

\* a plan run whose planned pages all failed or were empty, more of them than
\* MAX_SKIP_CHAIN + 1, the number that ends a cursor scan: nothing is written
C34_Witness ==
    /\ gRuns = 0
    /\ gPc = "plan"
    /\ gMode = "plan"
    /\ lastOutcome = "failed"
    /\ Cardinality(requested) > MAX_SKIP_CHAIN + 1
    /\ markCount = 0
    /\ processed = 0
    /\ progressFile = ZeroProgress

\* a planned page is completed: uHighest becomes that page
PlanCompletion == uPc = "plan" /\ uHighest' # uHighest

\* C35 as stated: in plan mode a successfully fetched non-empty page p sets
\* the category's cursor to max(p, current cursor), so the cursor never
\* decreases in plan mode; a later cursor-mode run of the category starts at
\* (highest planned page completed) + 1.
C35_CursorRunStartsAfterHighestPlanned ==
    /\ [][PlanCompletion => uCursor' = Max(uHighest', uCursor)]_vars
    /\ [][uCursor' >= uCursor]_vars
    /\ []((uPc = "started" /\ uHighest > 0) => uStart = uHighest + 1)

\* C35, amended: in plan mode a successfully fetched non-empty page p sets
\* the category's cursor to max(p, current cursor), so the cursor never
\* decreases in plan mode; a later cursor-mode run of the category starts at
\* max(cursor before the plan run, highest planned page completed) + 1, which
\* is above every planned page completed, so it requests no page at or below
\* the highest planned page completed.
C35_CursorRunStartsAfterCursor ==
    /\ [][PlanCompletion => uCursor' = Max(uHighest', uCursor)]_vars
    /\ [][uCursor' >= uCursor]_vars
    /\ [](uCursor = Max(uBefore, uHighest))
    /\ [](uPc = "started" =>
             /\ uStart = Max(uBefore, uHighest) + 1
             /\ uStart > uHighest)

\* the cursor stood at page 3; the plan run completed page 1 only, and the
\* cursor run starts at page 4
C35_Witness ==
    /\ uPc = "started"
    /\ uBefore = 3
    /\ uHighest = 1
    /\ uCursor = 3
    /\ uStart = 4

\* the highest page a cursor scan can reach: past the pages that may have
\* rows it survives MAX_SKIP_CHAIN failures, and the scan starts at page 1
LastScanPage == MaxFeedPage + MAX_SKIP_CHAIN + 1

\* the steps a page can take at most: the request, a yield per row, the
\* completion
PageSteps == PAGE_SIZE + 2

\* what is left of the page at hand
PageRank ==
    IF gPc = "yield" THEN yieldLeft + 1
    ELSE IF gPc = "cursor" THEN PAGE_SIZE + 2
    ELSE 0

\* what is left of the category: its planned pages, or the pages up to
\* LastScanPage
CategoryRank ==
    PageRank + PageSteps * (IF gMode = "plan" THEN Len(plannedRest)
                            ELSE LastScanPage + 1 - page_number)

CategorySteps == PageSteps * (LastScanPage + 2)

\* a bound on the steps the run has left
RunRank ==
    IF gPc = "finished" THEN 0
    ELSE IF gPc = "idle" THEN CategorySteps * (Auction + 1)
    ELSE CategoryRank + CategorySteps * (Auction - feed + 1)

\* a run that has not ended can take a step of TerminationSpecNext: the one
\* named here for the place it is at. After the last yield of a page of a
\* cursor scan the step is CursorPageComplete, whose only conditions are the
\* three stated here.
RunCanStep ==
    /\ gPc = "idle" => ENABLED ScrapeStart
    /\ gPc = "yield" =>
          IF ~AllYielded(yieldLeft) THEN ENABLED YieldNext
          ELSE IF gMode = "plan" THEN ENABLED PlanPageComplete
          ELSE gMode = "cursor"
    /\ gPc = "plan" =>
          IF plannedRest = <<>> THEN ENABLED PlanListDone
          ELSE IF allow_next(target, processed) THEN ENABLED PlanFetchNothing
          ELSE ENABLED PlanWindowExhausted
    /\ gPc = "cursor" =>
          IF allow_next(target, processed) THEN ENABLED CursorFetchEmpty
          ELSE ENABLED CursorWindowExhausted
    /\ gPc \in {"idle", "yield", "plan", "cursor", "finished"}

\* C36: with finitely many non-empty pages in every category, a run of
\* scrape_bam that is consumed to the end terminates, for any pattern of
\* fetch failures, any window target and with or without a plan: every step
\* of the run lowers a natural number, a run that has not ended can take a
\* step, and the run issues at most RunRequests requests.
C36_RunTerminates ==
    /\ [](RunRank \in Nat)
    /\ [][RunRank' < RunRank]_vars
    /\ []RunCanStep
    /\ [](totalRequests <= RunRequests)

\* an unbounded window, no plan, skipping enabled: the run ended after the
\* longest scan of the regular categories
C36_Witness ==
    /\ gPc = "finished"
    /\ target = NoTarget
    /\ ~gPlan.present
    /\ SKIP_FAILED_PAGES
    /\ totalRequests >= MaxFeedPage + MAX_SKIP_CHAIN + 1

(***************************************************************************)
(*                 Claims on the snapshot tool, continued                  *)
(***************************************************************************)
\* C37: the snapshot tool reads the latest stored snapshots before it
\* inserts those of the current run: the snapshot a feed is compared with is
\* the latest of the rows stored before the run (the rows of the preceding
\* run that stored any), never one of the rows the run inserted, and the plan
\* written is computed from it and the current page count.
C37_PlanComparesWithPrecedingRun ==
    tPc \in {"collect", "persisted", "done", "failed"} =>
       /\ \A f \in Feeds :
             /\ previous_map[f] <= rowsAtRead
             /\ IF Ranked(snapTable, rowsAtRead, f) = {}
                  THEN previous_map[f] = 0
                  ELSE previous_map[f] \in Ranked(snapTable, rowsAtRead, f)
       /\ tPc \in {"persisted", "done"} => Len(snapTable) = rowsAtRead + Auction
       /\ tPc = "done" =>
             \A f \in Feeds :
                snapPlanFile.pages[f] =
                   _compute_plan_pages(
                      snapTable[rowsAtRead + f].page_count,
                      IF previous_map[f] = 0 THEN NoSnapshot
                      ELSE snapTable[previous_map[f]].page_count,
                      HEAD_REFRESH_PAGES, TAIL_RECHECK_PAGES)

\* the second run found another feed size than the first stored: its plan is
\* the one for the growth from the first run's snapshot
C37_Witness ==
    /\ tPc = "done"
    /\ snapRuns = 2
    /\ rowsAtRead = Auction
    /\ Len(snapTable) = 2 * Auction
    /\ previous_map[1] = 1
    /\ snapTable[1].page_count < snapTable[rowsAtRead + 1].page_count
    /\ snapPlanFile.pages[1] # <<>>

\* C38: if fetching the metadata of any category fails, no snapshot row of
\* the run is inserted for any category and the plan file is neither written
\* nor overwritten: no step of a run up to its failure changes the table or
\* the plan file.
C38_FailedSnapshotRunChangesNothing ==
    /\ [][tPc' \in {"collect", "failed"} =>
             (snapTable' = snapTable /\ snapPlanFile' = snapPlanFile)]_vars
    /\ [](tPc \in {"collect", "failed"} => Len(snapTable) = rowsAtRead)

\* the second run failed after the metadata of one category was fetched: the
\* table holds the rows of the first run only and the plan file is the first
\* run's
C38_Witness ==
    /\ tPc = "failed"
    /\ snapRuns = 2
    /\ Len(current_snapshots) = 1
    /\ Len(snapTable) = Auction
    /\ rowsAtRead = Auction
    /\ snapPlanFile.present

\* C39: save_to_cloud opens the database connection before it pulls the
\* first listing from the lazy sequence: when the connection cannot be
\* opened the generator has not been started, no feed request of the run is
\* issued and the progress file and the plan file are left as they were.
C39_NoConnectionNoRequest ==
    /\ [][gPc' = "noconnection" =>
             /\ gPc = "idle"
             /\ totalRequests' = totalRequests
             /\ progressFile' = progressFile
             /\ planFile' = planFile]_vars
    /\ [](gPc = "noconnection" =>
             /\ requested = {}
             /\ lastRequest = NoRequest
             /\ markCount = 0)

\* the second run cannot connect: the progress file and the plan file the
\* first, abandoned run left are still there and nothing was requested
C39_Witness ==
    /\ gPc = "noconnection"
    /\ gRuns = 1
    /\ planFile.present
    /\ progressFile # ZeroProgress
    /\ requested = {}
    /\ totalRequests > 0

(***************************************************************************)
(*                  Claims on save_to_cloud, continued                     *)
(***************************************************************************)
\* C33: after save_to_cloud upserts a listing, the stored row for its url
\* holds that listing's values in every listing-derived column (the SET-list
\* columns, here price, and the insert-only ones, here size_sqm), whether the
\* row was freshly inserted or already existed.
C33_UpsertStoresEveryColumn ==
    sPc \in {"loop", "confirm", "done"} =>
       \A u \in seen_urls :
          /\ HasUrl(txn, u)
          /\ RowOf(txn, u).price = FirstListing(u).price
          /\ RowOf(txn, u).size_sqm = FirstListing(u).size

\* the listings consumed so far that have no url
ConsumedWithoutUrl == {i \in 1..Len(consumed) : consumed[i].url = NoUrl}

\* C40: at the head of every iteration of save_to_cloud's loop, at the
\* operator's prompt and after the loop: the number of listings consumed is
\* processed_count + duplicates_skipped + the number of listings skipped for
\* having no url; new_total <= processed_count; processed_count is the
\* number of distinct urls upserted; and, for BATCH_SIZE > 0, fewer than
\* BATCH_SIZE fresh inserts have been made since the last commit when an
\* iteration starts.
C40_CounterInvariants ==
    sPc \in {"loop", "confirm", "done"} =>
       /\ Len(consumed) =
             processed_count + duplicates_skipped + Cardinality(ConsumedWithoutUrl)
       /\ new_total <= processed_count
       /\ processed_count = Cardinality(seen_urls)
       /\ processed_count = dbExecutes
       /\ \A u \in seen_urls : HasUrl(txn, u)
       /\ (BATCH_SIZE > 0 /\ sPc = "loop") => batch_inserted < BATCH_SIZE

\* a run that consumed a listing without url, a listing and its repeat
C40_Witness ==
    /\ sPc = "loop"
    /\ Len(consumed) = 3
    /\ Cardinality(ConsumedWithoutUrl) = 1
    /\ duplicates_skipped = 1
    /\ processed_count = 1
    /\ new_total = 1
    /\ batch_inserted = 1

(***************************************************************************)
(*                         Claims on PageWindow                            *)
(***************************************************************************)
\* what the claim calls an unbounded window: a target of None, 0 or a
\* negative number
UnboundedArg(arg) == arg.isNone \/ arg.v <= 0

\* C31: allow_next() is true exactly when the window is unbounded or
\* processed < target; exhausted() is exactly the negation of allow_next();
\* mark_complete() adds 1 to processed when the window is bounded and changes
\* nothing when it is unbounded; a target of None, 0 or a negative number
\* makes the window unbounded, any other target is kept.
C31_PageWindowContract ==
    wPc # "new" =>
       /\ (wTarget = NoTarget) <=> UnboundedArg(wArg)
       /\ ~UnboundedArg(wArg) => wTarget = wArg.v
       /\ wPc = "probed" =>
             /\ wAllowed <=> (UnboundedArg(wArg) \/ wProcessed < wArg.v)
             /\ wExhausted <=> ~wAllowed
       /\ wPc = "marked" =>
             wProcessed = IF UnboundedArg(wArg) THEN wBefore ELSE wBefore + 1

\* a window of two pages probed after its second mark_complete(): exhausted
C31_Witness ==
    /\ wPc = "probed"
    /\ wArg = IntArg(2)
    /\ wBefore = 1
    /\ wProcessed = 2
    /\ ~wAllowed
    /\ wExhausted

(***************************************************************************)
(*                       Claims on calculate_rating                        *)
(***************************************************************************)
\* price_per_sqm < limit, with price_per_sqm = price/size when size > 0 and
\* 0 otherwise
RatedBelow(limit) ==
    IF ratedSize > 0 THEN ratedPrice < limit * ratedSize ELSE 0 < limit

\* C32: strategy is "Big Flip" (bonus 2) iff price_per_sqm < 40000, "Cash
\* Flow" (bonus 1) iff 40000 <= price_per_sqm < 80000, otherwise "Hold"
\* (bonus 0); rating = min(10, 5 + bonus + transport/10 + food/10) and never
\* exceeds 10; transport and food lie in [4,10] and safety in [6,10].
\* Ratings are in hundredths.
C32_RatingFormula ==
    cPc = "returned" =>
       LET bonus == IF metrics.strategy = "Big Flip" THEN 2
                    ELSE IF metrics.strategy = "Cash Flow" THEN 1 ELSE 0
       IN  /\ metrics.strategy \in {"Big Flip", "Cash Flow", "Hold"}
           /\ metrics.strategy = "Big Flip" <=> RatedBelow(40000)
           /\ metrics.strategy = "Cash Flow" <=> (~RatedBelow(40000) /\ RatedBelow(80000))
           /\ metrics.rating =
                 Min(1000, 500 + 100 * bonus + 10 * metrics.transport + 10 * metrics.food)
           /\ metrics.rating <= 1000
           /\ metrics.transport \in 4..10
           /\ metrics.food \in 4..10
           /\ metrics.safety \in 6..10

\* exactly 40000 per square metre with the best simulated scores: Cash Flow,
\* rated 8.0
C32_Witness ==
    /\ cPc = "returned"
    /\ ratedSize = 2
    /\ ratedPrice = 80000
    /\ metrics.strategy = "Cash Flow"
    /\ metrics.transport = 10
    /\ metrics.food = 10
    /\ metrics.rating = 800

=============================================================================
